---- MODULE Spec2Model ----
(***************************************************************************)
(* Model of the waveguide path compiler of zeropdk                         *)
(* (zeropdk/layout/waveguide_rounding.py).                                 *)
(*                                                                         *)
(* Lengths are counted in units of 0.001 (the clearance correction that    *)
(* solve_3 subtracts from the radius).  Waypoints are rectilinear: every   *)
(* segment is parallel to an axis, so that every angle the code computes   *)
(* is a multiple of pi/2 and every coordinate it produces has the form     *)
(* (p + q*sqrt(n))/4 with integers p, n and q in {-1, 0, 1}.  A number is  *)
(* the triple <<p, q, n>>; comparisons between numbers are decided exactly *)
(* (real arithmetic: the rounding of binary64 is not modelled).  Waypoints *)
(* and radii lie on a grid coarser than the 0.001 correction, as the       *)
(* coordinates a designer types do.                                        *)
(***************************************************************************)
EXTENDS Integers, Sequences, FiniteSets, TLC

\* ---------------------------------------------------------------- bounds
MaxN == 5          \* longest waypoint list
MaxSeg == 2        \* longest segment between consecutive waypoints (grid steps)
MaxRadius == 2     \* largest radius (grid steps)
Grid == 10         \* grid step of the waypoints and radii (units)

\* 0.001, the correction of solve_3 and solve_U, in units
Fudge == 1

\* -------------------------------------------------------------- numbers
\* the integer k as a number
Num(k) == <<4 * k, 0, 0>>

\* k/4 as a number
NumQ(k4) == <<k4, 0, 0>>

\* sqrt(n)/4 as a number
Surd(n) == IF n = 0 THEN <<0, 0, 0>> ELSE <<0, 1, n>>

NumNeg(a) == <<-a[1], -a[2], a[3]>>

\* a + b; at most one surd is involved in any sum the code forms
NumAdd(a, b) ==
    CASE a[2] = 0 -> <<a[1] + b[1], b[2], b[3]>>
      [] b[2] = 0 -> <<a[1] + b[1], a[2], a[3]>>
      [] a[3] = b[3] ->
            IF a[2] + b[2] = 0 THEN <<a[1] + b[1], 0, 0>>
            ELSE <<a[1] + b[1], a[2] + b[2], a[3]>>

NumSub(a, b) == NumAdd(a, NumNeg(b))

\* sign of (p + q*sqrt(n))/4, decided on integers
NumSign(a) ==
    LET p == a[1]  q == a[2]  n == a[3] IN
    CASE q = 0 -> (IF p > 0 THEN 1 ELSE IF p < 0 THEN -1 ELSE 0)
      [] q > 0 -> (IF p >= 0 THEN 1
                   ELSE IF q * q * n > p * p THEN 1
                   ELSE IF q * q * n < p * p THEN -1 ELSE 0)
      [] q < 0 -> (IF p <= 0 THEN -1
                   ELSE IF q * q * n > p * p THEN -1
                   ELSE IF q * q * n < p * p THEN 1 ELSE 0)

NumLess(a, b) == NumSign(NumSub(a, b)) < 0

NumAbs(a) == IF NumSign(a) < 0 THEN NumNeg(a) ELSE a

\* s * a for s in {-1, 0, 1}
NumScale(s, a) ==
    CASE s = 0 -> <<0, 0, 0>>
      [] s = 1 -> a
      [] s = -1 -> NumNeg(a)

\* --------------------------------------------------------------- points
\* klayout DPoint / DVector
Pt(x, y) == [x |-> Num(x), y |-> Num(y)]

PtSub(P, Q) == [x |-> NumSub(P.x, Q.x), y |-> NumSub(P.y, Q.y)]

\* P + s*d for a direction d = <<dx, dy>> and a length s
PtMove(P, d, s) ==
    [x |-> NumAdd(P.x, NumScale(d[1], s)), y |-> NumAdd(P.y, NumScale(d[2], s))]

\* -v
VecNeg(v) == [x |-> NumNeg(v.x), y |-> NumNeg(v.y)]

\* DPoint.norm() of an axis-parallel vector
Norm(v) ==
    CASE NumSign(v.y) = 0 -> NumAbs(v.x)
      [] NumSign(v.x) = 0 -> NumAbs(v.y)

\* atan2(v.y, v.x) in units of pi/2; atan2(0, 0) = 0
Atan2Q(v) ==
    LET sx == NumSign(v.x)  sy == NumSign(v.y) IN
    CASE sy = 0 /\ sx >= 0 -> 0
      [] sy = 0 /\ sx < 0 -> 2
      [] sx = 0 /\ sy > 0 -> 1
      [] sx = 0 /\ sy < 0 -> -1

\* the unit vector whose atan2 is a*pi/2
UnitQ(a) ==
    CASE a % 4 = 0 -> <<1, 0>>
      [] a % 4 = 1 -> <<0, 1>>
      [] a % 4 = 2 -> <<-1, 0>>
      [] a % 4 = 3 -> <<0, -1>>

\* v / v.norm() for a non-zero axis-parallel vector
UnitOf(v) == <<NumSign(v.x), NumSign(v.y)>>

fix_angle(a) == ((a + 2) % 4) - 2

angle_between(v1, v0) == fix_angle(Atan2Q(v1) - Atan2Q(v0))

\* q*sqrt(n) with the square factors of n moved into q
RECURSIVE Reduce(_, _)
Reduce(a, k) ==
    IF a[2] = 0 \/ k * k > a[3] THEN a
    ELSE IF a[3] % (k * k) = 0 THEN Reduce(<<a[1], k * a[2], a[3] \div (k * k)>>, k)
    ELSE Reduce(a, k + 1)

\* the same number with a square-free n
NumNorm(a) ==
    LET r == Reduce(a, 2)
    IN  IF r[2] = 0 THEN <<r[1], 0, 0>>
        ELSE IF r[3] = 1 THEN <<r[1] + r[2], 0, 0>>
        ELSE r

\* 16 times the square of a number, as p + q*sqrt(n)
NumSq16(a) ==
    <<a[1] * a[1] + a[2] * a[2] * a[3], 2 * a[1] * a[2], IF a[1] * a[2] = 0 THEN 0 ELSE a[3]>>

\* 16 times the square of the distance between two points
Dist16(P, Q) ==
    NumAdd(NumSq16(NumAdd(NumNorm(P.x), NumNeg(NumNorm(Q.x)))),
           NumSq16(NumAdd(NumNorm(P.y), NumNeg(NumNorm(Q.y)))))

\* ------------------------------------------------------------- elements
\* _Line(P1, P2)
Line(P1, P2) == [type |-> "Line", P1 |-> P1, P2 |-> P2]

\* _Arc(P1, C, P2, ccw)
Arc(P1, C, P2, ccw) == [type |-> "Arc", P1 |-> P1, C |-> C, P2 |-> P2, ccw |-> ccw]

\* what a solver call does: kind is "ok" or the name of the exception raised
Ok(sol, rest) == [kind |-> "ok", sol |-> sol, rest |-> rest]

Raise(e) == [kind |-> e, sol |-> <<>>, rest |-> <<>>]

\* -------------------------------------------------------------- solvers
\* the clearance with the 0.001 added to the radius instead of taken off
min_clearance_Padded(angle, rad4) ==
    CASE angle = 0 -> [inf |-> TRUE, val |-> NumQ(0)]
      [] angle \in {-1, 1} ->
            [inf |-> FALSE, val |-> NumQ((IF rad4 < 0 THEN -rad4 ELSE rad4) + 8 * Fudge)]

\* abs(radius / tan(angle / 2)) for a radius of rad4/4 units; tan(0) = 0
\* raises ZeroDivisionError, which gives inf; |tan(pi/4)| = 1
min_clearance(angle, rad4) ==
    CASE angle = 0 -> [inf |-> TRUE, val |-> NumQ(0)]
      [] angle \in {-1, 1} -> [inf |-> FALSE, val |-> NumQ(IF rad4 < 0 THEN -rad4 ELSE rad4)]

\* solve_2 handing back its end point as solve_3 does
solve_2_KeepEnd(A, B) == Ok(<<Line(A, B)>>, <<B>>)

solve_2(A, B) == Ok(<<Line(A, B)>>, <<>>)

\* solve_3 handing back the corner instead of the point where its arc ends
solve_3_RestFromCorner(A, B, C, rad4) ==
    LET alpha == angle_between(PtSub(A, B), PtSub(C, B))
        clear == min_clearance(alpha, rad4 - 4 * Fudge)
        len1 == Norm(PtSub(B, A))
        len2 == Norm(PtSub(C, B))
        e1 == UnitOf(PtSub(B, A))
        e2 == UnitOf(PtSub(C, B))
        T1 == PtMove(B, e1, NumNeg(clear.val))
        T2 == PtMove(B, e2, clear.val)
        arc_center == PtMove(T1, e2, clear.val)
    IN  IF alpha % 4 = 2 THEN Ok(<<>>, <<A, C>>)
        ELSE IF clear.inf \/ NumLess(len1, clear.val) THEN Raise("ClearanceRewind")
        ELSE IF NumLess(len2, clear.val) THEN Raise("ClearanceForward")
        ELSE Ok(<<Line(A, T1), Arc(T1, arc_center, T2, alpha > 0)>>, <<B, C>>)

\* solve_3 testing the outgoing segment before the incoming one
solve_3_ForwardFirst(A, B, C, rad4) ==
    LET alpha == angle_between(PtSub(A, B), PtSub(C, B))
        clear == min_clearance(alpha, rad4 - 4 * Fudge)
        len1 == Norm(PtSub(B, A))
        len2 == Norm(PtSub(C, B))
        e1 == UnitOf(PtSub(B, A))
        e2 == UnitOf(PtSub(C, B))
        T1 == PtMove(B, e1, NumNeg(clear.val))
        T2 == PtMove(B, e2, clear.val)
        arc_center == PtMove(T1, e2, clear.val)
    IN  IF alpha % 4 = 2 THEN Ok(<<>>, <<A, C>>)
        ELSE IF ~clear.inf /\ NumLess(len2, clear.val) THEN Raise("ClearanceForward")
        ELSE IF clear.inf \/ NumLess(len1, clear.val) THEN Raise("ClearanceRewind")
        ELSE Ok(<<Line(A, T1), Arc(T1, arc_center, T2, alpha > 0)>>, <<T2, C>>)

\* solve_3 dropping A instead of B on a straight pass
solve_3_CollinearDropsA(A, B, C, rad4) ==
    LET alpha == angle_between(PtSub(A, B), PtSub(C, B))
        clear == min_clearance(alpha, rad4 - 4 * Fudge)
        len1 == Norm(PtSub(B, A))
        len2 == Norm(PtSub(C, B))
        e1 == UnitOf(PtSub(B, A))
        e2 == UnitOf(PtSub(C, B))
        T1 == PtMove(B, e1, NumNeg(clear.val))
        T2 == PtMove(B, e2, clear.val)
        arc_center == PtMove(T1, e2, clear.val)
    IN  IF alpha % 4 = 2 THEN Ok(<<>>, <<B, C>>)
        ELSE IF clear.inf \/ NumLess(len1, clear.val) THEN Raise("ClearanceRewind")
        ELSE IF NumLess(len2, clear.val) THEN Raise("ClearanceForward")
        ELSE Ok(<<Line(A, T1), Arc(T1, arc_center, T2, alpha > 0)>>, <<T2, C>>)

\* solve_3(A, B, C, radius): the pass through a straight angle, the two
\* clearance tests in the order of the code, and the Line and the Arc
solve_3(A, B, C, rad4) ==
    LET alpha == angle_between(PtSub(A, B), PtSub(C, B))
        clear == min_clearance(alpha, rad4 - 4 * Fudge)
        len1 == Norm(PtSub(B, A))
        len2 == Norm(PtSub(C, B))
        e1 == UnitOf(PtSub(B, A))
        e2 == UnitOf(PtSub(C, B))
        T1 == PtMove(B, e1, NumNeg(clear.val))
        T2 == PtMove(B, e2, clear.val)
        arc_center == PtMove(T1, e2, clear.val)
    IN  IF alpha % 4 = 2 THEN Ok(<<>>, <<A, C>>)
        ELSE IF clear.inf \/ NumLess(len1, clear.val) THEN Raise("ClearanceRewind")
        ELSE IF NumLess(len2, clear.val) THEN Raise("ClearanceForward")
        ELSE Ok(<<Line(A, T1), Arc(T1, arc_center, T2, alpha > 0)>>, <<T2, C>>)

\* Two arcs of opposite sense between the parallel lines AB and CD.  With
\* right angles gamma = acos(1 - d/(2R)), X is the middle of BC and the
\* tangent points lie sqrt(d(4R - d))/2 before B and after C (d = |BC|).
\* A straight angle makes tan(pi) = -1.2e-16 (binary64): the computation
\* then stops at acos (ValueError) or, with two straight angles, at the
\* radius check of _Arc (AssertionError).  d > 4R is outside acos's domain.
\* The construction is modelled for d <= 2R, which is the only way the
\* compiler reaches it.
solve_Z(A, B, C, D, rad4) ==
    LET BC == PtSub(C, B)
        a1 == angle_between(VecNeg(BC), PtSub(B, A))
        a2 == angle_between(VecNeg(BC), PtSub(D, C))
        d4 == Norm(BC)[1]
        u == UnitQ(Atan2Q(VecNeg(BC)) - a1)
        v == UnitOf(BC)
        s == Surd((d4 * (4 * rad4 - d4)) \div 4)
        Aprime == PtMove(B, u, NumNeg(s))
        Dprime == PtMove(C, u, s)
        X == PtMove(B, v, NumQ(d4 \div 2))
        X1 == PtMove(Aprime, v, NumQ(rad4))
        X2 == PtMove(Dprime, v, NumQ(-rad4))
    IN  CASE a1 * a2 = 0 -> Raise("AssertionError")
          [] a1 = -2 /\ a2 = -2 -> Raise("AssertionError")
          [] (a1 = -2) # (a2 = -2) -> Raise("ValueError")
          [] a1 * a2 # 0 /\ a1 # -2 /\ a2 # -2 /\ d4 = 0 -> Raise("ZeroDivisionError")
          [] a1 * a2 # 0 /\ a1 # -2 /\ a2 # -2 /\ d4 > 4 * rad4 -> Raise("ValueError")
          [] a1 * a2 # 0 /\ a1 # -2 /\ a2 # -2 /\ d4 > 0 /\ d4 <= 2 * rad4 ->
                Ok(<<Line(A, Aprime), Arc(Aprime, X1, X, a1 < 0), Arc(X, X2, Dprime, a1 > 0)>>,
                   <<Dprime, D>>)

\* bisect(V1, V2) divides by the norm of |V1|*V2 + |V2|*V1, which is zero
\* when a vector is zero or the two point in opposite directions
BisectFails(V1, V2) ==
    \/ UnitOf(V1) = <<0, 0>>
    \/ UnitOf(V2) = <<0, 0>>
    \/ UnitOf(V1) = UnitOf(VecNeg(V2))

\* a vector along bisect(V1, V2)
BisectDir(V1, V2) == <<UnitOf(V1)[1] + UnitOf(V2)[1], UnitOf(V1)[2] + UnitOf(V2)[2]>>

cross_prod(p1, p2) == p1[1] * p2[2] - p1[2] * p2[1]

\* Four arcs around the intersection X of the bisectors at B and C; h is
\* the distance from X to BC.  A reversal at B or C puts X on BC (h = 0)
\* and the division by h fails.  Otherwise AB and CD are perpendicular to
\* BC on the same side, h = d/2, and the tangent points lie
\* h + sqrt((R - h)(3R + h)) before B and after C.
solve_U(A, B, C, D, rad4) ==
    LET XB == BisectDir(PtSub(A, B), PtSub(C, B))
        XC == BisectDir(PtSub(B, C), PtSub(D, C))
        orientation == cross_prod(XB, XC) > 0
        u == UnitOf(PtSub(B, A))
        v == UnitOf(PtSub(C, B))
        w == UnitOf(PtSub(D, C))
        d4 == Norm(PtSub(C, B))[1]
        h4 == d4 \div 2
        first == solve_3(A, B, C, h4)
        second == solve_3(first.rest[1], C, D, h4)
        m == (rad4 - h4) * (3 * rad4 + h4)
        hL == NumAdd(NumQ(h4), Surd(m))
        hL2 == NumAdd(NumQ(h4), Surd(m \div 4))
        X == PtMove(PtMove(B, u, NumQ(-h4)), v, NumQ(h4))
        Aprime == PtMove(B, u, NumNeg(hL))
        Dprime == PtMove(C, u, NumNeg(hL))
        Asec == PtMove(Aprime, v, NumQ(-rad4))
        Dsec == PtMove(Dprime, v, NumQ(rad4))
        H == PtMove(PtMove(B, u, NumNeg(hL2)), v, NumQ((h4 - rad4) \div 2))
        II == PtMove(PtMove(B, u, NumNeg(hL2)), v, NumQ((d4 + rad4 + h4) \div 2))
    IN  IF BisectFails(PtSub(A, B), PtSub(C, B)) \/ BisectFails(PtSub(B, C), PtSub(D, C))
        THEN Raise("ZeroDivisionError")
        ELSE IF cross_prod(XB, XC) = 0 THEN Raise("AssertionError")
        ELSE IF u = <<-v[1], -v[2]>> \/ w = <<-v[1], -v[2]>>
        THEN Raise("ZeroDivisionError")
        ELSE IF h4 >= rad4 - 4 * Fudge
        THEN (IF first.kind # "ok" THEN Raise(first.kind)
              ELSE IF second.kind # "ok" THEN Raise(second.kind)
              ELSE Ok(first.sol \o second.sol, second.rest))
        ELSE Ok(<<Line(A, Aprime), Arc(Aprime, Asec, H, ~orientation),
                  Arc(H, X, II, orientation), Arc(II, Dsec, Dprime, ~orientation)>>,
                <<Dprime, D>>)

\* solve_4 sending a zero angle to solve_Z
solve_4_ZeroToZ(A, B, C, D, rad4) ==
    LET BC == PtSub(C, B)
        a1 == angle_between(VecNeg(BC), PtSub(B, A))
        a2 == angle_between(VecNeg(BC), PtSub(D, C))
    IN  IF a1 * a2 >= 0 THEN solve_Z(A, B, C, D, rad4) ELSE solve_U(A, B, C, D, rad4)

solve_4(A, B, C, D, rad4) ==
    LET BC == PtSub(C, B)
        a1 == angle_between(VecNeg(BC), PtSub(B, A))
        a2 == angle_between(VecNeg(BC), PtSub(D, C))
    IN  IF a1 * a2 > 0 THEN solve_Z(A, B, C, D, rad4) ELSE solve_U(A, B, C, D, rad4)

\* ---------------------------------------------------------------- state
VARIABLES
    points,             \* the argument: the caller's waypoint list
    radius,             \* the argument: the radius, in units
    pc,                 \* "start", "loop", "returned" or "raised"
    exc,                \* the exception that left compute_rounded_path
    points_left,
    old_points_left,
    rounded_path,
    old_rounded_path,
    can_rewind,
    last_step,          \* history: the step the loop completed last
    snap,               \* history: points_left and rounded_path before the last successful solve_3
    call,               \* history: the last solver call and its arguments
    waypoints,          \* layout_waveguide_from_points: the caller's point list
    width,              \* layout_waveguide_from_points: the requested width, in units
    taper,              \* layout_waveguide_from_points: taper_width and taper_length, or None
    waveguide_path,     \* layout_waveguide_from_points: the path with its widths
    cell,               \* the shapes inserted into the cell, in order
    dpolygon            \* the vertices of the polygon at hand, in order

vars == <<points, radius, pc, exc, points_left, old_points_left, rounded_path,
          old_rounded_path, can_rewind, last_step, snap, call,
          waypoints, width, taper, waveguide_path, cell, dpolygon>>

\* the state of the layout function around the compiler
layout == <<waypoints, width, taper, waveguide_path, cell, dpolygon>>

locals == <<points_left, old_points_left, rounded_path, old_rounded_path, can_rewind>>

history == <<last_step, snap, call>>

\* --------------------------------------------------------------- caller
Dirs == {<<1, 0>>, <<0, 1>>, <<-1, 0>>, <<0, -1>>}

Radii == {Grid * k : k \in 1..MaxRadius}

NoCall == [fn |-> "none", args |-> <<>>]

NoSnap == [points_left |-> <<>>, rounded_path |-> <<>>]

Init ==
    /\ points = <<>>
    /\ radius = 0
    /\ pc = "input"
    /\ exc = "none"
    /\ points_left = <<>>
    /\ old_points_left = <<>>
    /\ rounded_path = <<>>
    /\ old_rounded_path = <<>>
    /\ can_rewind = FALSE
    /\ last_step = "none"
    /\ snap = NoSnap
    /\ call = NoCall
    /\ waypoints = <<>>
    /\ width = 0
    /\ taper = <<>>
    /\ waveguide_path = <<>>
    /\ cell = <<>>
    /\ dpolygon = <<>>

\* The caller assembles a rectilinear waypoint list: it starts at the
\* origin, the first segment points along ex, every later one along any of
\* the four axis directions; consecutive waypoints are distinct.
AddWaypoint ==
    /\ pc = "input"
    /\ Len(points) < MaxN
    /\ \E d \in Dirs, k \in 1..MaxSeg :
          points' = CASE Len(points) = 0 -> <<Pt(0, 0)>>
                      [] Len(points) = 1 -> <<Pt(0, 0), Pt(Grid * k, 0)>>
                      [] Len(points) > 1 ->
                            Append(points, PtMove(points[Len(points)], d, Num(Grid * k)))
    /\ UNCHANGED <<layout, radius, pc, exc, locals, history>>

\* compute_rounded_path(points, radius) is called
Call ==
    /\ pc = "input"
    /\ radius' \in Radii
    /\ pc' = "start"
    /\ UNCHANGED <<layout, points, exc, locals, history>>

\* ------------------------------------------------- compute_rounded_path
\* points_list[lo:hi] of Python (0-based, hi exclusive, clipped)
Slice(s, lo, hi) ==
    SubSeq(s, lo + 1, IF hi < Len(s) THEN hi ELSE Len(s))

\* points_left[5:], one waypoint too many dropped
Tail4_Drop(s) == SubSeq(s, 6, Len(s))

\* points_left[4:]
Tail4(s) == SubSeq(s, 5, Len(s))

\* N == 2: return [_Line(*points)]
ReturnLine ==
    /\ pc = "start"
    /\ Len(points) = 2
    /\ pc' = "returned"
    /\ rounded_path' = <<Line(points[1], points[2])>>
    /\ UNCHANGED <<layout, points, radius, exc, points_left, old_points_left,
                   old_rounded_path, can_rewind, history>>

\* a list too short to compile answered with an empty path
RejectShort_Empty ==
    /\ pc = "start"
    /\ Len(points) < 2
    /\ pc' = "returned"
    /\ rounded_path' = <<>>
    /\ UNCHANGED <<layout, points, radius, exc, points_left, old_points_left,
                   old_rounded_path, can_rewind, history>>

\* assert N >= 3
RejectShort ==
    /\ pc = "start"
    /\ Len(points) < 2
    /\ pc' = "raised"
    /\ exc' = "AssertionError"
    /\ UNCHANGED <<layout, points, radius, locals, history>>

\* the loop entered with can_rewind = True
EnterLoop_Rewindable ==
    /\ pc = "start"
    /\ Len(points) >= 3
    /\ pc' = "loop"
    /\ points_left' = points
    /\ old_points_left' = points
    /\ rounded_path' = <<>>
    /\ old_rounded_path' = <<>>
    /\ can_rewind' = TRUE
    /\ UNCHANGED <<layout, points, radius, exc, history>>

\* the initialisation of the loop's variables
EnterLoop ==
    /\ pc = "start"
    /\ Len(points) >= 3
    /\ pc' = "loop"
    /\ points_left' = points
    /\ old_points_left' = points
    /\ rounded_path' = <<>>
    /\ old_rounded_path' = <<>>
    /\ can_rewind' = FALSE
    /\ UNCHANGED <<layout, points, radius, exc, history>>

\* solve_3(*points_left[0:3], radius), as the try block calls it
Try3 == solve_3(points_left[1], points_left[2], points_left[3], 4 * radius)

\* the iteration with points_left[2:] kept instead of points_left[3:]
Solve3Step_KeepB ==
    /\ pc = "loop"
    /\ Len(points_left) > 2
    /\ Try3.kind = "ok"
    /\ old_points_left' = points_left
    /\ points_left' = Try3.rest \o Slice(points_left, 2, Len(points_left))
    /\ can_rewind' = TRUE
    /\ old_rounded_path' = rounded_path
    /\ rounded_path' = rounded_path \o Try3.sol
    /\ last_step' = "solve_3"
    /\ snap' = [points_left |-> points_left, rounded_path |-> rounded_path]
    /\ call' = [fn |-> "solve_3", args |-> Slice(points_left, 0, 3)]
    /\ UNCHANGED <<layout, points, radius, pc, exc>>

\* one iteration whose solve_3 returns
Solve3Step ==
    /\ pc = "loop"
    /\ Len(points_left) > 2
    /\ Try3.kind = "ok"
    /\ old_points_left' = points_left
    /\ points_left' = Try3.rest \o Slice(points_left, 3, Len(points_left))
    /\ can_rewind' = TRUE
    /\ old_rounded_path' = rounded_path
    /\ rounded_path' = rounded_path \o Try3.sol
    /\ last_step' = "solve_3"
    /\ snap' = [points_left |-> points_left, rounded_path |-> rounded_path]
    /\ call' = [fn |-> "solve_3", args |-> Slice(points_left, 0, 3)]
    /\ UNCHANGED <<layout, points, radius, pc, exc>>

\* what follows solve_4 with can_rewind left True
Solved4_StillRewindable(pl, rp, step, r4) ==
    IF r4.kind # "ok"
    THEN /\ pc' = "raised"
         /\ exc' = r4.kind
         /\ points_left' = pl
         /\ rounded_path' = rp
         /\ call' = [fn |-> "solve_4", args |-> Slice(pl, 0, 4)]
         /\ UNCHANGED <<old_points_left, old_rounded_path, can_rewind, last_step>>
    ELSE /\ old_points_left' = pl
         /\ points_left' = r4.rest \o Tail4(pl)
         /\ can_rewind' = TRUE
         /\ old_rounded_path' = rp
         /\ rounded_path' = rp \o r4.sol
         /\ last_step' = step
         /\ call' = [fn |-> "solve_4", args |-> Slice(pl, 0, 4)]
         /\ UNCHANGED <<pc, exc>>

\* what follows the call r4 of solve_4 on the window pl[0:4]: an exception
\* of solve_4 leaves the function, otherwise the window is replaced by what
\* solve_4 returned
Solved4(pl, rp, step, r4) ==
    IF r4.kind # "ok"
    THEN /\ pc' = "raised"
         /\ exc' = r4.kind
         /\ points_left' = pl
         /\ rounded_path' = rp
         /\ call' = [fn |-> "solve_4", args |-> Slice(pl, 0, 4)]
         /\ UNCHANGED <<old_points_left, old_rounded_path, can_rewind, last_step>>
    ELSE /\ old_points_left' = pl
         /\ points_left' = r4.rest \o Tail4(pl)
         /\ can_rewind' = FALSE
         /\ old_rounded_path' = rp
         /\ rounded_path' = rp \o r4.sol
         /\ last_step' = step
         /\ call' = [fn |-> "solve_4", args |-> Slice(pl, 0, 4)]
         /\ UNCHANGED <<pc, exc>>

\* the body shared by the two handlers once the window pl[0:4] is chosen:
\* too few points is fatal, otherwise solve_4 is called
Retry4(pl, rp, step) ==
    IF Len(Slice(pl, 0, 4)) < 4
    THEN /\ pc' = "raised"
         /\ exc' = "RuntimeError"
         /\ points_left' = pl
         /\ rounded_path' = rp
         /\ call' = [fn |-> "solve_3", args |-> Slice(points_left, 0, 3)]
         /\ UNCHANGED <<old_points_left, old_rounded_path, can_rewind, last_step>>
    ELSE Solved4(pl, rp, step, solve_4(pl[1], pl[2], pl[3], pl[4], 4 * radius))

\* the handler retrying from the current state instead of the saved one
OnClearanceRewind_NoRestore ==
    /\ pc = "loop"
    /\ Len(points_left) > 2
    /\ Try3.kind = "ClearanceRewind"
    /\ IF ~can_rewind
       THEN /\ pc' = "raised"
            /\ exc' = "RuntimeError"
            /\ call' = [fn |-> "solve_3", args |-> Slice(points_left, 0, 3)]
            /\ UNCHANGED <<locals, last_step>>
       ELSE Retry4(points_left, rounded_path, "rewind_4")
    /\ UNCHANGED <<layout, points, radius, snap>>

\* except ClearanceRewind
OnClearanceRewind ==
    /\ pc = "loop"
    /\ Len(points_left) > 2
    /\ Try3.kind = "ClearanceRewind"
    /\ IF ~can_rewind
       THEN /\ pc' = "raised"
            /\ exc' = "RuntimeError"
            /\ call' = [fn |-> "solve_3", args |-> Slice(points_left, 0, 3)]
            /\ UNCHANGED <<locals, last_step>>
       ELSE Retry4(old_points_left, old_rounded_path, "rewind_4")
    /\ UNCHANGED <<layout, points, radius, snap>>

\* the handler going back to the saved state when the window is the last one
OnClearanceForward_Rewinds ==
    /\ pc = "loop"
    /\ Len(points_left) > 2
    /\ Try3.kind = "ClearanceForward"
    /\ IF Len(points_left) < 4 /\ can_rewind
       THEN Retry4(old_points_left, old_rounded_path, "rewind_4")
       ELSE Retry4(points_left, rounded_path, "forward_4")
    /\ UNCHANGED <<layout, points, radius, snap>>

\* except ClearanceForward
OnClearanceForward ==
    /\ pc = "loop"
    /\ Len(points_left) > 2
    /\ Try3.kind = "ClearanceForward"
    /\ Retry4(points_left, rounded_path, "forward_4")
    /\ UNCHANGED <<layout, points, radius, snap>>

\* after the loop: solve_2 on the points that remain, the closing assertion
\* and the return; solve_2 called with fewer than two points is a TypeError
Finish ==
    /\ pc = "loop"
    /\ Len(points_left) <= 2
    /\ IF Len(points_left) = 2
       THEN /\ rounded_path' = rounded_path \o solve_2(points_left[1], points_left[2]).sol
            /\ points_left' = solve_2(points_left[1], points_left[2]).rest
                                \o Slice(points_left, 2, Len(points_left))
            /\ call' = [fn |-> "solve_2", args |-> Slice(points_left, 0, 2)]
            /\ IF Len(points_left') = 0
               THEN pc' = "returned" /\ exc' = exc
               ELSE pc' = "raised" /\ exc' = "AssertionError"
       ELSE /\ pc' = "raised"
            /\ exc' = "TypeError"
            /\ UNCHANGED <<rounded_path, points_left, call>>
    /\ UNCHANGED <<layout, points, radius, old_points_left, old_rounded_path, can_rewind,
                   last_step, snap>>

Next ==
    \/ AddWaypoint
    \/ Call
    \/ ReturnLine
    \/ RejectShort
    \/ EnterLoop
    \/ Solve3Step
    \/ OnClearanceRewind
    \/ OnClearanceForward
    \/ Finish

Spec == Init /\ [][Next]_vars

\* compute_rounded_path(points, radius) called with a radius longer than
\* every segment the caller can draw
CallWide ==
    /\ pc = "input"
    /\ radius' = Grid * (MaxRadius + 1)
    /\ pc' = "start"
    /\ UNCHANGED <<layout, points, exc, locals, history>>

NextWide ==
    \/ AddWaypoint
    \/ CallWide
    \/ ReturnLine
    \/ RejectShort
    \/ EnterLoop
    \/ Solve3Step
    \/ OnClearanceRewind
    \/ OnClearanceForward
    \/ Finish

SpecWide == Init /\ [][NextWide]_vars

\* ------------------------------------------- corners of any direction
\* A second reading of solve_3 for waypoints whose segments are not parallel
\* to an axis.  Points are pairs of integers in units of 0.001, unit vectors
\* and the cosine and sine of an angle are integers in units of 1/10000, and
\* every quotient is rounded down: the angle is carried by its cosine and
\* sine, and tan(angle/2) = sin/(1 + cos).

RECURSIVE SqrtIter(_, _, _)
SqrtIter(n, lo, hi) ==
    IF lo >= hi THEN lo
    ELSE LET mid == (lo + hi + 1) \div 2
         IN  IF mid * mid <= n THEN SqrtIter(n, mid, hi) ELSE SqrtIter(n, lo, mid - 1)

\* the integer part of sqrt(n)
isqrt(n) == SqrtIter(n, 0, 46340)

Abs(k) == IF k < 0 THEN -k ELSE k

\* DPoint(x, y), in units
IPt(x, y) == [x |-> x, y |-> y]

\* Q - P
IVec(P, Q) == [x |-> Q.x - P.x, y |-> Q.y - P.y]

\* v.norm()
INorm(v) == isqrt(v.x * v.x + v.y * v.y)

\* v / len, in units of 1/10000
IUnit(v, len) == [x |-> (v.x * 10000) \div len, y |-> (v.y * 10000) \div len]

\* P + e * s for a unit vector e and a length s
IMove(P, e, s) == [x |-> P.x + (e.x * s) \div 10000, y |-> P.y + (e.y * s) \div 10000]

\* solve_3(A, B, C, radius) with alpha the angle from C - B to A - B:
\* cos(alpha) = -e1.e2 and sin(alpha) = e1 x e2.  alpha = pi is the straight
\* pass, alpha = 0 the reversal with an infinite clearance; the centre is
\* p1 + (e2 - e1) * clear / (1 + cos(alpha)), as 2*cos(alpha/2)**2 is
\* 1 + cos(alpha).
solve_3_units(A, B, C, rad) ==
    LET len1 == INorm(IVec(A, B))
        len2 == INorm(IVec(B, C))
        e1 == IUnit(IVec(A, B), len1)
        e2 == IUnit(IVec(B, C), len2)
        cosA == (-(e1.x * e2.x + e1.y * e2.y)) \div 10000
        sinA == (e1.x * e2.y - e1.y * e2.x) \div 10000
        clear == Abs(((rad - Fudge) * (10000 + cosA)) \div sinA)
        T1 == IMove(B, e1, -clear)
        T2 == IMove(B, e2, clear)
        arc_center == [x |-> B.x + ((e2.x - e1.x) * clear) \div (10000 + cosA),
                       y |-> B.y + ((e2.y - e1.y) * clear) \div (10000 + cosA)]
    IN  IF sinA = 0 /\ cosA < 0 THEN Ok(<<>>, <<A, C>>)
        ELSE IF sinA = 0 \/ len1 < clear THEN Raise("ClearanceRewind")
        ELSE IF len2 < clear THEN Raise("ClearanceForward")
        ELSE Ok(<<Line(A, T1), Arc(T1, arc_center, T2, sinA > 0)>>, <<T2, C>>)

\* the segments of the first path of the rounding test and their mirror
\* images, in units
Steps == {<<10000, 0>>, <<0, 10000>>, <<0, -10000>>, <<20000, -10000>>, <<20000, 10000>>}

\* two segments that are not parallel
Turns(s, t) == s[1] * t[2] - s[2] * t[1] # 0

\* radii up to the one of the rounding test, in units
TestRadii == {1000, 2000, 3000}

\* The caller assembles a path from the origin whose segments are taken
\* from Steps, each one turning away from the line of the one before.
AddStep ==
    /\ pc = "input"
    /\ Len(points) < MaxN
    /\ \E s \in Steps :
          /\ Len(points) > 1 =>
                Turns(s, <<points[Len(points)].x - points[Len(points) - 1].x,
                           points[Len(points)].y - points[Len(points) - 1].y>>)
          /\ points' = IF Len(points) = 0 THEN <<IPt(0, 0)>>
                       ELSE Append(points, IPt(points[Len(points)].x + s[1],
                                               points[Len(points)].y + s[2]))
    /\ UNCHANGED <<layout, radius, pc, exc, locals, history>>

\* compute_rounded_path(points, radius) is called
CallTest ==
    /\ pc = "input"
    /\ radius' \in TestRadii
    /\ pc' = "start"
    /\ UNCHANGED <<layout, points, exc, locals, history>>

\* solve_3(*points_left[0:3], radius), as the try block calls it
Try3Units == solve_3_units(points_left[1], points_left[2], points_left[3], radius)

\* one iteration whose solve_3 returns
Solve3StepUnits ==
    /\ pc = "loop"
    /\ Len(points_left) > 2
    /\ Try3Units.kind = "ok"
    /\ old_points_left' = points_left
    /\ points_left' = Try3Units.rest \o Slice(points_left, 3, Len(points_left))
    /\ can_rewind' = TRUE
    /\ old_rounded_path' = rounded_path
    /\ rounded_path' = rounded_path \o Try3Units.sol
    /\ last_step' = "solve_3"
    /\ snap' = [points_left |-> points_left, rounded_path |-> rounded_path]
    /\ call' = [fn |-> "solve_3", args |-> Slice(points_left, 0, 3)]
    /\ UNCHANGED <<layout, points, radius, pc, exc>>

\* The segments of Steps are long enough for every radius of TestRadii: no
\* window raises a signal (SegmentsHaveRoom below), so that the two handlers
\* of the loop have nothing to do on these paths.
NextSteps ==
    \/ AddStep
    \/ CallTest
    \/ ReturnLine
    \/ RejectShort
    \/ EnterLoop
    \/ Solve3StepUnits
    \/ Finish

SpecSteps == Init /\ [][NextSteps]_vars

\* ------------------------------------------ layout_waveguide_from_points
\* Around the compiler, layout_waveguide_from_points removes repeated
\* points, calls compute_rounded_path and draws either the rounded path or,
\* when the compiler raised, the plain polyline.  A shape in the cell is
\* recorded as the points it runs through and the width at each of them:
\* the outline that waveguide_dpolygon computes from them is not modelled.

\* 1e-4, the tolerance of unique_points, in units of 0.00001
Tolerance == 10

\* a point with integer coordinates in units of 0.00001
FinePt(x, y) == [x |-> x, y |-> y, fine |-> TRUE]

\* (P - Q).norm() > 1e-4.  The waypoints of the compiler are exact numbers
\* in units of 0.001, of which 1e-4 is a tenth (16*d*d > 0.16); where the
\* tolerance itself is looked at, the points are those of FinePt.
Apart(P, Q) ==
    IF "fine" \in DOMAIN P
    THEN (P.x - Q.x) * (P.x - Q.x) + (P.y - Q.y) * (P.y - Q.y) > Tolerance * Tolerance
    ELSE NumSign(<<100 * Dist16(P, Q)[1] - 16, 100 * Dist16(P, Q)[2], Dist16(P, Q)[3]>>) > 0

\* the loop of unique_points with previous_point moved to every point it
\* looks at, kept or not
RECURSIVE UniqueLoop_Previous(_, _, _)
UniqueLoop_Previous(kept, previous_point, rest) ==
    IF rest = <<>> THEN kept
    ELSE IF Apart(Head(rest), previous_point)
         THEN UniqueLoop_Previous(Append(kept, Head(rest)), Head(rest), Tail(rest))
         ELSE UniqueLoop_Previous(kept, Head(rest), Tail(rest))

\* the loop of unique_points over the points that remain
RECURSIVE UniqueLoop(_, _, _)
UniqueLoop(kept, previous_point, rest) ==
    IF rest = <<>> THEN kept
    ELSE IF Apart(Head(rest), previous_point)
         THEN UniqueLoop(Append(kept, Head(rest)), Head(rest), Tail(rest))
         ELSE UniqueLoop(kept, previous_point, Tail(rest))

unique_points(point_list) ==
    IF Len(point_list) < 2 THEN point_list
    ELSE UniqueLoop(<<point_list[1]>>, point_list[1], Tail(point_list))

\* a width argument is a number or a list of numbers
Scalar(w) == [list |-> FALSE, w |-> w]

WidthList(ws) == [list |-> TRUE, w |-> ws]

\* the shape laid out through pts with the width ws[i] at pts[i]
Polygon(pts, ws) == [points |-> pts, widths |-> ws]

\* what a call of waveguide_dpolygon does
Drawn(poly) == [kind |-> "ok", polygon |-> poly]

Fails(e) == [kind |-> e, polygon |-> Polygon(<<>>, <<>>)]

\* the length of the polyline up to its i-th point, in quarter units
RECURSIVE Travelled(_, _)
Travelled(pts, i) ==
    IF i <= 1 THEN 0 ELSE Travelled(pts, i - 1) + Norm(PtSub(pts[i], pts[i - 1]))[1]

\* (1 - t) * w0 + t * w1 at t = distance / L, as the fraction num/den
Interpolated(w0, w1, distance, L) == [num |-> w0 * (L - distance) + w1 * distance, den |-> L]

\* the widths with a list of two spread evenly over the points, whatever
\* the distances between them
PointWidths_ByIndex(points_list, w) ==
    IF ~w.list THEN [i \in 1..Len(points_list) |-> w.w]
    ELSE IF Len(w.w) = Len(points_list) THEN w.w
    ELSE IF Len(w.w) = 2
    THEN [i \in 1..Len(points_list) |->
            IF i = 1 THEN w.w[1]
            ELSE Interpolated(w.w[1], w.w[2], i - 1, Len(points_list) - 1)]
    ELSE [i \in 1..Len(points_list) |-> w.w[1]]

\* the widths waveguide_dpolygon pairs with the points
PointWidths(points_list, w) ==
    IF ~w.list THEN [i \in 1..Len(points_list) |-> w.w]
    ELSE IF Len(w.w) = Len(points_list) THEN w.w
    ELSE IF Len(w.w) = 2
    THEN [i \in 1..Len(points_list) |->
            IF i = 1 THEN w.w[1]
            ELSE Interpolated(w.w[1], w.w[2], Travelled(points_list, i),
                              IF points_list[1] = points_list[Len(points_list)] THEN 0
                              ELSE Travelled(points_list, Len(points_list)))]
    ELSE [i \in 1..Len(points_list) |-> w.w[1]]

\* waveguide_dpolygon(points_list, width, dbu): fewer than two points are
\* refused; len(width) of a number is the TypeError that selects a constant
\* width; a list as long as the points gives the widths one by one, a list
\* of two is interpolated along the length, any other list gives its first
\* entry to every point (width[0] of an empty list is an IndexError)
waveguide_dpolygon(points_list, w) ==
    IF Len(points_list) < 2 THEN Fails("NotImplementedError")
    ELSE IF w.list /\ Len(w.w) = 0 THEN Fails("IndexError")
    ELSE Drawn(Polygon(points_list, PointWidths(points_list, w)))

\* _Path(points, widths)
Path(pts, w) == [type |-> "Path", points |-> pts, widths |-> w]

\* _Taper(P1, P2, w1, w2)
Taper(P1, P2, w1, w2) ==
    [type |-> "Taper", P1 |-> P1, P2 |-> P2, w1 |-> w1, w2 |-> w2,
     points |-> <<P1, P2>>, widths |-> WidthList(<<w1, w2>>)]

\* the 30 length units of minimum_length, in units
MinStraight == 30000

\* a point that get_points computes on the arc: the one placed 0.001 rad
\* after the start, those of the adaptive sampler, the one 0.001 rad before
\* the end
OnArc(e, where) == [arc |-> <<e.P1, e.C, e.P2, e.ccw>>, at |-> where]

\* element.get_points(): a Line gives its two ends; an Arc gives the points
\* sampled on the circle around C from P1 to P2 (how many the sampler
\* places in between is not modelled)
get_points(e) ==
    IF e.type = "Line" THEN <<e.P1, e.P2>>
    ELSE <<e.P1, OnArc(e, "start"), OnArc(e, "samples"), OnArc(e, "end"), e.P2>>

\* a < m for a number a and a whole number m of units, decided without the
\* squares of NumSign (m is large): a surd |q|*sqrt(n) lies strictly
\* between the integers isqrt(q*q*n) and isqrt(q*q*n) + 1
LessThanUnits(a, m) ==
    LET r == NumNorm(a)
        s == isqrt(r[2] * r[2] * r[3])
    IN  IF r[2] = 0 THEN r[1] < 4 * m
        ELSE IF r[2] > 0 THEN s < 4 * m - r[1]
        ELSE r[1] - 4 * m <= s

\* _compute_tapered_line with the widths of the closing taper exchanged
compute_tapered_line_Swapped(line, waveguide_width, taper_width, taper_length) ==
    LET P1 == line.P1
        P2 == line.P2
        u == UnitOf(PtSub(P2, P1))
        Q1 == PtMove(P1, u, Num(taper_length))
        Q2 == PtMove(P2, u, Num(-taper_length))
    IN  IF LessThanUnits(Norm(PtSub(P2, P1)), MinStraight + 2 * taper_length)
        THEN <<Path(<<P1, P2>>, Scalar(waveguide_width))>>
        ELSE <<Taper(P1, Q1, waveguide_width, taper_width),
               Path(<<Q1, Q2>>, Scalar(taper_width)),
               Taper(Q2, P2, waveguide_width, taper_width)>>

\* _compute_tapered_line
compute_tapered_line(line, waveguide_width, taper_width, taper_length) ==
    LET P1 == line.P1
        P2 == line.P2
        u == UnitOf(PtSub(P2, P1))
        Q1 == PtMove(P1, u, Num(taper_length))
        Q2 == PtMove(P2, u, Num(-taper_length))
    IN  IF LessThanUnits(Norm(PtSub(P2, P1)), MinStraight + 2 * taper_length)
        THEN <<Path(<<P1, P2>>, Scalar(waveguide_width))>>
        ELSE <<Taper(P1, Q1, waveguide_width, taper_width),
               Path(<<Q1, Q2>>, Scalar(taper_width)),
               Taper(Q2, P2, taper_width, waveguide_width)>>

RECURSIVE compute_untapered_path(_, _)
compute_untapered_path(path, waveguide_width) ==
    IF path = <<>> THEN <<>>
    ELSE <<Path(get_points(Head(path)), Scalar(waveguide_width))>>
            \o compute_untapered_path(Tail(path), waveguide_width)

RECURSIVE compute_tapered_path(_, _, _, _)
compute_tapered_path(path, waveguide_width, taper_width, taper_length) ==
    IF path = <<>> THEN <<>>
    ELSE (CASE Head(path).type = "Line" ->
                 compute_tapered_line(Head(path), waveguide_width, taper_width, taper_length)
            [] Head(path).type = "Arc" ->
                 <<Path(get_points(Head(path)), Scalar(waveguide_width))>>
            [] OTHER -> <<>>)
         \o compute_tapered_path(Tail(path), waveguide_width, taper_width, taper_length)

\* the widths one element contributes to _draw_widths: a number is repeated
\* for every point, a list as long as the points is taken as it is, a list
\* of two is spread evenly (np.linspace), any other list is the internal
\* error
ElementWidths(e) ==
    LET n == Len(e.points) IN
    IF ~e.widths.list THEN Drawn([i \in 1..n |-> e.widths.w])
    ELSE IF Len(e.widths.w) = n THEN Drawn(e.widths.w)
    ELSE IF Len(e.widths.w) = 2
    THEN Drawn([i \in 1..n |-> Interpolated(e.widths.w[1], e.widths.w[2], i - 1, n - 1)])
    ELSE Fails("RuntimeError")

\* "creating a single path": the points and the widths of all the elements
RECURSIVE Merged(_)
Merged(elements) ==
    IF elements = <<>> THEN Drawn(Polygon(<<>>, <<>>))
    ELSE LET first == ElementWidths(Head(elements))
             others == Merged(Tail(elements))
         IN  IF first.kind # "ok" THEN first
             ELSE IF others.kind # "ok" THEN others
             ELSE Drawn(Polygon(Head(elements).points \o others.polygon.points,
                                first.polygon \o others.polygon.widths))

\* "deleting repeated points": a point equal to the one kept last is
\* dropped together with its width
RECURSIVE DropRepeated(_, _, _)
DropRepeated(kept, pts, ws) ==
    IF pts = <<>> THEN kept
    ELSE IF kept.points # <<>> /\ Head(pts) = kept.points[Len(kept.points)]
         THEN DropRepeated(kept, Tail(pts), Tail(ws))
         ELSE DropRepeated(Polygon(Append(kept.points, Head(pts)), Append(kept.widths, Head(ws))),
                           Tail(pts), Tail(ws))

\* the widths a caller asks for, and the taper it may ask for:
Widths == {Grid \div 2, 3 * Grid}

\* <<>> where taper_width and taper_length are None, else the two of them
Tapers == {<<>>, <<Grid \div 5, Grid>>}

\* The caller assembles its point list as the callers of the compiler do,
\* and may give a point twice in a row.
AddLayoutPoint ==
    /\ pc = "input"
    /\ Len(waypoints) < MaxN - 1
    /\ \E d \in Dirs, k \in 0..MaxSeg :
          waypoints' = CASE Len(waypoints) = 0 -> <<Pt(0, 0)>>
                         [] Len(waypoints) = 1 -> <<Pt(0, 0), Pt(Grid * k, 0)>>
                         [] Len(waypoints) > 1 ->
                               Append(waypoints,
                                      PtMove(waypoints[Len(waypoints)], d, Num(Grid * k)))
    /\ UNCHANGED <<points, radius, pc, exc, locals, history, width, taper, waveguide_path, cell, dpolygon>>

\* the steps between the points of a list that has near-repetitions, in
\* units of 0.00001: none, less than the tolerance along x either way,
\* less than the tolerance obliquely, more than the tolerance.  No sum of
\* these steps is exactly 1e-4 long, where the rounding of norm() decides.
FineSteps == {<<0, 0>>, <<6, 0>>, <<-6, 0>>, <<5, 2>>, <<0, 11>>}

\* The caller assembles a point list with points closer than the tolerance.
AddFinePoint ==
    /\ pc = "input"
    /\ Len(waypoints) < MaxN - 1
    /\ \E d \in FineSteps :
          waypoints' = IF Len(waypoints) = 0 THEN <<FinePt(0, 0)>>
                       ELSE Append(waypoints,
                                   FinePt(waypoints[Len(waypoints)].x + d[1],
                                          waypoints[Len(waypoints)].y + d[2]))
    /\ UNCHANGED <<points, radius, pc, exc, locals, history, width, taper, waveguide_path, cell, dpolygon>>

\* the call returning on a short list before the radius is looked at
LayoutCall_ReturnFirst ==
    /\ pc = "input"
    /\ radius' \in Radii
    /\ width' \in Widths
    /\ taper' \in Tapers
    /\ IF Len(unique_points(waypoints)) < 2
       THEN /\ points' = unique_points(waypoints)
            /\ pc' = "layout_returned"
            /\ exc' = exc
       ELSE IF 2 * radius' > width'
       THEN /\ points' = unique_points(waypoints)
            /\ pc' = "start"
            /\ exc' = exc
       ELSE /\ pc' = "layout_raised"
            /\ exc' = "AssertionError"
            /\ points' = points
    /\ UNCHANGED <<locals, history, waypoints, waveguide_path, cell, dpolygon>>

\* layout_waveguide_from_points is called: the assertion on the radius, the
\* removal of repeated points and the early return
LayoutCall ==
    /\ pc = "input"
    /\ radius' \in Radii
    /\ width' \in Widths
    /\ taper' \in Tapers
    /\ IF 2 * radius' > width'
       THEN /\ points' = unique_points(waypoints)
            /\ pc' = IF Len(points') < 2 THEN "layout_returned" ELSE "start"
            /\ exc' = exc
       ELSE /\ pc' = "layout_raised"
            /\ exc' = "AssertionError"
            /\ points' = points
    /\ UNCHANGED <<locals, history, waypoints, waveguide_path, cell, dpolygon>>

\* layout_waveguide(cell, layer, points_list, width) with the result r of
\* waveguide_dpolygon: the polygon is inserted, or the exception leaves
LaidOut(r) ==
    IF r.kind = "ok"
    THEN /\ cell' = Append(cell, r.polygon)
         /\ pc' = "layout_returned"
         /\ exc' = exc
    ELSE /\ cell' = cell
         /\ pc' = "layout_raised"
         /\ exc' = r.kind

\* the handler drawing the polyline with the width the caller asked for
Fallback_Requested ==
    /\ pc = "raised"
    /\ LaidOut(waveguide_dpolygon(points, Scalar(width)))
    /\ UNCHANGED <<points, radius, locals, history, waypoints, width, taper, waveguide_path, dpolygon>>

\* except Exception: the plain polyline through points, 0.1 wide
Fallback ==
    /\ pc = "raised"
    /\ LaidOut(waveguide_dpolygon(points, Scalar(100)))
    /\ UNCHANGED <<points, radius, locals, history, waypoints, width, taper, waveguide_path, dpolygon>>

\* the single path drawn from the elements wp: the internal error leaves,
\* otherwise repeated points are dropped and the path is laid out
DrawPath(m) ==
    IF m.kind # "ok"
    THEN LaidOut(m)
    ELSE LaidOut(waveguide_dpolygon(
            DropRepeated(Polygon(<<>>, <<>>), m.polygon.points, m.polygon.widths).points,
            WidthList(DropRepeated(Polygon(<<>>, <<>>), m.polygon.points, m.polygon.widths).widths)))

\* the compiler returned: the path is tapered or not and drawn
Draw ==
    /\ pc = "returned"
    /\ waveguide_path' = IF taper # <<>>
                         THEN compute_tapered_path(rounded_path, width, taper[1], taper[2])
                         ELSE compute_untapered_path(rounded_path, width)
    /\ DrawPath(Merged(waveguide_path'))
    /\ UNCHANGED <<points, radius, locals, history, waypoints, width, taper, dpolygon>>

NextLayout ==
    \/ AddLayoutPoint
    \/ LayoutCall
    \/ ReturnLine
    \/ EnterLoop
    \/ Solve3Step
    \/ OnClearanceRewind
    \/ OnClearanceForward
    \/ Finish
    \/ Fallback
    \/ Draw

SpecLayout == Init /\ [][NextLayout]_vars

\* the width arguments of a direct call: a number, or a list of up to
\* MaxN entries that starts at a number and changes by dw from entry to entry
NumberArgs == {Scalar(w) : w \in Widths}

ListArgs ==
    {WidthList([i \in 1..n |-> w + (i - 1) * dw]) : n \in 0..MaxN, w \in Widths, dw \in {-1, 0, 1}}

\* layout_waveguide(cell, layer, points_list, width) called on the list
\* assembled so far
LayoutWaveguide ==
    /\ pc = "input"
    /\ (width' \in NumberArgs \/ width' \in ListArgs)
    /\ LaidOut(waveguide_dpolygon(waypoints, width'))
    /\ UNCHANGED <<points, radius, locals, history, waypoints, taper, waveguide_path, dpolygon>>

NextWidth ==
    \/ AddLayoutPoint
    \/ LayoutWaveguide

SpecWidth == Init /\ [][NextWidth]_vars

\* the lengths of the Lines of a compiled path: a grid step, and the
\* 30 + 2 * taper_length of a taper one grid step long, a unit less and a
\* unit more
LineLengths ==
    {Grid, MinStraight + 2 * Grid - 1, MinStraight + 2 * Grid, MinStraight + 2 * Grid + 1}

\* where a path of elements ends, and which way it points there
EndPoint(path) == IF path = <<>> THEN Pt(0, 0) ELSE path[Len(path)].P2

Heading(path) ==
    IF path = <<>> THEN <<1, 0>>
    ELSE IF path[Len(path)].type = "Line"
    THEN UnitOf(PtSub(path[Len(path)].P2, path[Len(path)].P1))
    ELSE UnitOf(PtSub(path[Len(path)].C, path[Len(path)].P1))

\* A compiled path is assembled as compute_rounded_path returns them for
\* rectilinear waypoints: a Line, then quarter-circle Arcs and Lines in
\* turn, each starting where the one before ended and along its direction.
AddLine ==
    /\ pc = "input"
    /\ Len(rounded_path) < MaxN
    /\ IF rounded_path = <<>> THEN TRUE ELSE rounded_path[Len(rounded_path)].type = "Arc"
    /\ \E len \in LineLengths :
          rounded_path' = Append(rounded_path,
                                 Line(EndPoint(rounded_path),
                                      PtMove(EndPoint(rounded_path), Heading(rounded_path), Num(len))))
    /\ UNCHANGED <<layout, points, radius, pc, exc, points_left, old_points_left,
                   old_rounded_path, can_rewind, history>>

\* the centre of a quarter turn of radius r that leaves P along d
TurnCentre(P, d, r, ccw) ==
    PtMove(P, IF ccw THEN <<-d[2], d[1]>> ELSE <<d[2], -d[1]>>, Num(r))

AddArc ==
    /\ pc = "input"
    /\ Len(rounded_path) < MaxN
    /\ rounded_path # <<>>
    /\ rounded_path[Len(rounded_path)].type = "Line"
    /\ \E r \in Radii, ccw \in BOOLEAN :
          rounded_path' =
              Append(rounded_path,
                     Arc(EndPoint(rounded_path),
                         TurnCentre(EndPoint(rounded_path), Heading(rounded_path), r, ccw),
                         PtMove(TurnCentre(EndPoint(rounded_path), Heading(rounded_path), r, ccw),
                                Heading(rounded_path), Num(r)),
                         ccw))
    /\ UNCHANGED <<layout, points, radius, pc, exc, points_left, old_points_left,
                   old_rounded_path, can_rewind, history>>

\* compute_tapered_path(path, waveguide_width, taper_width, taper_length)
\* called on the path assembled so far
TaperPath ==
    /\ pc = "input"
    /\ rounded_path # <<>>
    /\ width' \in Widths
    /\ taper' \in Tapers \ {<<>>}
    /\ waveguide_path' = compute_tapered_path(rounded_path, width', taper'[1], taper'[2])
    /\ pc' = "tapered"
    /\ UNCHANGED <<points, radius, exc, locals, history, waypoints, cell, dpolygon>>

NextTaper ==
    \/ AddLine
    \/ AddArc
    \/ TaperPath

SpecTaper == Init /\ [][NextTaper]_vars

\* the wrapper up to its call of the compiler, on lists with near-repetitions
NextUnique ==
    \/ AddFinePoint
    \/ LayoutCall

SpecUnique == Init /\ [][NextUnique]_vars

\* ------------------------------------------------- waveguide_dpolygon
\* The outline waveguide_dpolygon computes, for a list of two points: the
\* loop over the inner points is not entered, and each boundary is the
\* offset of the first point followed by the offset of the last.

\* the sign of v * delta for a vector delta parallel to an axis (or zero)
DotAlong(v, delta) ==
    NumSign(v.x) * NumSign(delta.x) + NumSign(v.y) * NumSign(delta.y)

\* smooth_append on a boundary of fewer than two points: the first point is
\* taken, the second if the edge to it has a length
smooth_append(point_list, point) ==
    IF Len(point_list) < 1 THEN <<point>>
    ELSE IF point # point_list[Len(point_list)] THEN Append(point_list, point)
    ELSE point_list

\* reduce(smooth_append, boundary, list()) for a boundary of one or two points
Smoothed(boundary) ==
    IF Len(boundary) = 1 THEN smooth_append(<<>>, boundary[1])
    ELSE smooth_append(smooth_append(<<>>, boundary[1]), boundary[2])

\* points_high or points_low: the last point's offset is appended if it
\* lies ahead of the first point's
Boundary(first, final, delta) ==
    IF DotAlong(PtSub(final, first), delta) > 0 THEN <<first, final>> ELSE <<first>>

Reversed(s) == [i \in 1..Len(s) |-> s[Len(s) + 1 - i]]

\* the two boundaries joined head to head
polygon_dpoints_Unreversed(first_point, next_point, first_width, next_width) ==
    LET delta == PtSub(next_point, first_point)
        theta == Atan2Q(delta)
        high == UnitQ(theta + 1)
        low == UnitQ(theta + 3)
    IN  Smoothed(Boundary(PtMove(first_point, high, NumQ(2 * first_width)),
                          PtMove(next_point, high, NumQ(2 * next_width)), delta))
        \o Smoothed(Boundary(PtMove(first_point, low, NumQ(2 * first_width)),
                             PtMove(next_point, low, NumQ(2 * next_width)), delta))

\* polygon_dpoints = smooth_points_high + list(reversed(smooth_points_low))
\* for the points first_point, next_point with their widths: the offsets
\* are half a width along theta + pi/2 (high) and theta - pi/2 (low)
polygon_dpoints(first_point, next_point, first_width, next_width) ==
    LET delta == PtSub(next_point, first_point)
        theta == Atan2Q(delta)
        high == UnitQ(theta + 1)
        low == UnitQ(theta + 3)
    IN  Smoothed(Boundary(PtMove(first_point, high, NumQ(2 * first_width)),
                          PtMove(next_point, high, NumQ(2 * next_width)), delta))
        \o Reversed(Smoothed(Boundary(PtMove(first_point, low, NumQ(2 * first_width)),
                                      PtMove(next_point, low, NumQ(2 * next_width)), delta)))

\* waveguide_dpolygon returns the polygon, or its exception leaves
Outlined(r) ==
    IF r.kind = "ok"
    THEN /\ dpolygon' = polygon_dpoints(r.polygon.points[1], r.polygon.points[2],
                                         r.polygon.widths[1], r.polygon.widths[2])
         /\ pc' = "outlined"
         /\ exc' = exc
    ELSE /\ dpolygon' = dpolygon
         /\ pc' = "layout_raised"
         /\ exc' = r.kind

\* waveguide_dpolygon(points_list, width, dbu) called on two consecutive
\* points of the list assembled so far
StraightPolygon ==
    /\ pc = "input"
    /\ Len(waypoints) >= 2
    /\ \E i \in 1..(Len(waypoints) - 1) : points' = <<waypoints[i], waypoints[i + 1]>>
    /\ (width' \in NumberArgs \/ width' \in {w \in ListArgs : Len(w.w) <= 3})
    /\ Outlined(waveguide_dpolygon(points', width'))
    /\ UNCHANGED <<radius, locals, history, waypoints, taper, waveguide_path, cell>>

NextStraight ==
    \/ AddLayoutPoint
    \/ StraightPolygon

SpecStraight == Init /\ [][NextStraight]_vars

\* ------------------------------------------------ ZeroPDKDSimplePolygon
\* Points are DPoints with whole coordinates (IPt).  The vertices the caller
\* gives lie on a grid of step 4 and the clip bounds on even numbers, so that
\* every crossing of an edge with a bound has whole coordinates.
Coords == {0, 4, 8}

\* np.inf: a bound beyond every coordinate
Inf == 1000

\* the pairs a caller gives as x_bounds or y_bounds, in either order
BoundPairs == {<<-Inf, Inf>>, <<-Inf, 2>>, <<6, 2>>, <<6, Inf>>, <<0, Inf>>, <<10, -2>>}

\* s[i], the index taken round the contour
Around(s, i) == s[((i - 1 + Len(s)) % Len(s)) + 1]

\* (b - a) x (c - b): negative where the contour turns clockwise at b
Turn(a, b, c) == (b.x - a.x) * (c.y - b.y) - (b.y - a.y) * (c.x - b.x)

\* b lies within the box spanned by a and c
OnSegment(a, b, c) ==
    /\ (IF a.x < c.x THEN a.x ELSE c.x) <= b.x
    /\ b.x <= (IF a.x < c.x THEN c.x ELSE a.x)
    /\ (IF a.y < c.y THEN a.y ELSE c.y) <= b.y
    /\ b.y <= (IF a.y < c.y THEN c.y ELSE a.y)

\* the points compress(False) drops: a point repeated by the next one, and
\* a point on the segment between its neighbours
Redundant(s) ==
    {i \in 1..Len(s) :
        \/ Len(s) > 1 /\ s[i] = Around(s, i + 1)
        \/ /\ Len(s) > 2
           /\ Turn(Around(s, i - 1), s[i], Around(s, i + 1)) = 0
           /\ OnSegment(Around(s, i - 1), s[i], Around(s, i + 1))}

RECURSIVE compress(_)
compress(s) ==
    IF Redundant(s) = {} THEN s
    ELSE LET i == CHOOSE k \in Redundant(s) : \A j \in Redundant(s) : k <= j
         IN  compress(SubSeq(s, 1, i - 1) \o SubSeq(s, i + 1, Len(s)))

\* twice the area enclosed by the contour, positive when counter-clockwise
RECURSIVE Area2(_, _)
Area2(s, i) ==
    IF i > Len(s) THEN 0
    ELSE Around(s, i - 1).x * s[i].y - s[i].x * Around(s, i - 1).y + Area2(s, i + 1)

\* DSimplePolygon(pts): the contour is compressed, made clockwise and begun
\* at its lowest point, the leftmost of them
DSimplePolygon(pts) ==
    LET c == compress(pts)
        o == IF Len(c) >= 3 /\ Area2(c, 1) > 0 THEN Reversed(c) ELSE c
        k == CHOOSE i \in 1..Len(o) : \A j \in 1..Len(o) :
                \/ o[i].y < o[j].y
                \/ o[i].y = o[j].y /\ o[i].x <= o[j].x
    IN  IF o = <<>> THEN <<>> ELSE SubSeq(o, k, Len(o)) \o SubSeq(o, 1, k - 1)

\* DBox(x_bounds[0], y_bounds[0], x_bounds[1], y_bounds[1])
DBox(x_bounds, y_bounds) == [x |-> x_bounds, y |-> y_bounds]

\* the bounds with the smaller one first
Reordered(bounds) ==
    IF bounds[1] <= bounds[2] THEN bounds ELSE <<bounds[2], bounds[1]>>

check_within_bounds(p, box) ==
    /\ box.x[1] <= p.x
    /\ box.x[2] >= p.x
    /\ box.y[1] <= p.y
    /\ box.y[2] >= p.y

\* rotate(point, i * pi / 2), i taken modulo 4
rotate(p, i) ==
    CASE i % 4 = 0 -> p
      [] i % 4 = 1 -> IPt(-p.y, p.x)
      [] i % 4 = 2 -> IPt(-p.x, -p.y)
      [] i % 4 = 3 -> IPt(p.y, -p.x)

RECURSIVE rotate_bounds90(_, _)
rotate_bounds90(box, i_times) ==
    IF i_times = 0 THEN box
    ELSE rotate_bounds90(DBox(<<-box.y[2], -box.y[1]>>, box.x), i_times - 1)

\* np.interp(x, [l.x, r.x], [l.y, r.y]) for l.x <= x <= r.x
interp(x, l, r) ==
    IF ~(x < r.x) THEN r.y
    ELSE IF x = l.x THEN l.y
    ELSE l.y + ((r.y - l.y) * (x - l.x)) \div (r.x - l.x)

\* the point where the edge p1 p2 meets the left side of the box, if any
intersect_left_boundary(p1, p2, box) ==
    LET left_most == IF p1.x < p2.x THEN p1 ELSE p2
        right_most == IF p1.x < p2.x THEN p2 ELSE p1
        y_intersect == interp(box.x[1], left_most, right_most)
    IN  IF left_most.x <= box.x[1] /\ right_most.x >= box.x[1]
           /\ box.y[1] <= y_intersect /\ box.y[2] >= y_intersect
        THEN <<IPt(box.x[1], y_intersect)>>
        ELSE <<>>

\* the crossing with side i (left 0, top 1, right 2, bottom 3), found on
\* the plane turned by i quarter turns and turned back
Crossing(p1, p2, box, i) ==
    LET p == intersect_left_boundary(rotate(p1, i), rotate(p2, i), rotate_bounds90(box, i))
    IN  IF p = <<>> THEN <<>> ELSE <<rotate(p[1], 4 - i)>>

\* intersect(p1, p2, x_bounds, y_bounds): the crossings in the order of the
\* sides and the last side crossed (-1 for None)
intersect(p1, p2, box) ==
    [intersect_list |-> Crossing(p1, p2, box, 0) \o Crossing(p1, p2, box, 1)
                          \o Crossing(p1, p2, box, 2) \o Crossing(p1, p2, box, 3),
     last_intersect |-> IF Crossing(p1, p2, box, 3) # <<>> THEN 3
                        ELSE IF Crossing(p1, p2, box, 2) # <<>> THEN 2
                        ELSE IF Crossing(p1, p2, box, 1) # <<>> THEN 1
                        ELSE IF Crossing(p1, p2, box, 0) # <<>> THEN 0
                        ELSE -1]

\* the corner of the box between two sides that follow each other
boundary_vertex(box, edge_from, edge_to) ==
    LET vertical_edge == IF edge_from % 2 = 0 THEN edge_from ELSE edge_to
        horizontal_edge == IF edge_from % 2 = 0 THEN edge_to ELSE edge_from
    IN  IPt(box.x[((vertical_edge \div 2) % 2) + 1],
            box.y[((1 - (horizontal_edge - 1) \div 2) % 2) + 1])

\* DSimplePolygon.inside(p): p is within the clockwise contour or on it
inside(poly, p) ==
    /\ Len(poly) >= 3
    /\ \A i \in 1..Len(poly) : Turn(poly[i], Around(poly, i + 1), p) <= 0

\* the part of the edge on the right of the line x = x0: nothing, or the
\* edge with the ends on the left moved to the line
ClippedLeft(e, x0) ==
    IF e = <<>> THEN <<>>
    ELSE IF e[1].x < x0 /\ e[2].x < x0 THEN <<>>
    ELSE <<IF e[1].x < x0 THEN IPt(x0, interp(x0, e[1], e[2])) ELSE e[1],
           IF e[2].x < x0 THEN IPt(x0, interp(x0, e[2], e[1])) ELSE e[2]>>

\* the edge cut at side i of the box
ClippedSide(e, box, i) ==
    LET c == ClippedLeft(IF e = <<>> THEN <<>> ELSE <<rotate(e[1], i), rotate(e[2], i)>>,
                         rotate_bounds90(box, i).x[1])
    IN  IF c = <<>> THEN <<>> ELSE <<rotate(c[1], 4 - i), rotate(c[2], 4 - i)>>

\* DEdge.clipped(box): the part of the edge within the closed box, or None
clipped(p1, p2, box) ==
    ClippedSide(ClippedSide(ClippedSide(ClippedSide(<<p1, p2>>, box, 0), box, 1), box, 2), box, 3)

\* DSimplePolygon.bbox()
bbox(poly) ==
    LET xs == {poly[i].x : i \in 1..Len(poly)}
        ys == {poly[i].y : i \in 1..Len(poly)}
    IN  [p1 |-> IPt(CHOOSE a \in xs : \A b \in xs : a <= b, CHOOSE a \in ys : \A b \in ys : a <= b),
         p2 |-> IPt(CHOOSE a \in xs : \A b \in xs : a >= b, CHOOSE a \in ys : \A b \in ys : a >= b)]

\* the four corners of the box, as DSimplePolygon(box) has them
BoxPoints(box) ==
    <<IPt(box.x[1], box.y[1]), IPt(box.x[1], box.y[2]),
      IPt(box.x[2], box.y[2]), IPt(box.x[2], box.y[1])>>

\* DSimplePolygon.touches(box): the polygon and the closed box share a point
touches(poly, box) ==
    /\ poly # <<>>
    /\ \/ \E i \in 1..Len(poly) : clipped(poly[i], Around(poly, i + 1), box) # <<>>
       \/ \E i \in 1..4 : inside(poly, BoxPoints(box)[i])

\* the first loop of clip: every vertex, followed by the two ends of what
\* the box leaves of the edge that starts there
RECURSIVE clip_dpoints(_, _, _)
clip_dpoints(poly, box, i) ==
    IF i > Len(poly) THEN <<>>
    ELSE <<poly[i]>> \o clipped(poly[i], Around(poly, i + 1), box)
            \o clip_dpoints(poly, box, i + 1)

\* the corners between the side left and the side entered that are inside
\* the polygon
RECURSIVE Corners(_, _, _, _)
Corners(poly, box, i, last_intersect) ==
    IF i = last_intersect THEN <<>>
    ELSE (IF inside(poly, boundary_vertex(box, i, i + 1))
          THEN <<boundary_vertex(box, i, i + 1)>> ELSE <<>>)
         \o Corners(poly, box, (i + 1) % 4, last_intersect)

\* the main loop of clip from point k of pts on: the corners passed when
\* the contour comes back into the box through another side, the crossings
\* of the edge that ends at the point, and the point when it is in the box
RECURSIVE ClipLoop(_, _, _, _, _, _)
ClipLoop(poly, box, pts, k, previous_intersect, out) ==
    IF k > Len(pts) THEN out
    ELSE LET hit == intersect(Around(pts, k - 1), pts[k], box)
             entering == /\ previous_intersect # -1
                         /\ hit.last_intersect # -1
                         /\ hit.last_intersect # previous_intersect
                         /\ check_within_bounds(pts[k], box)
         IN  ClipLoop(poly, box, pts, k + 1,
                  IF ~check_within_bounds(pts[k], box) /\ hit.last_intersect # -1
                  THEN hit.last_intersect ELSE previous_intersect,
                  out \o (IF entering
                          THEN Corners(poly, box, previous_intersect, hit.last_intersect)
                          ELSE <<>>)
                      \o hit.intersect_list
                      \o (IF check_within_bounds(pts[k], box) THEN <<pts[k]>> ELSE <<>>))

\* clip once the box is made of the bounds: what the polygon is after the
\* call
ClipBox(poly, box) ==
    IF ~touches(poly, box) THEN <<>>
    ELSE IF check_within_bounds(bbox(poly).p1, box) /\ check_within_bounds(bbox(poly).p2, box)
    THEN poly
    ELSE IF Len(clip_dpoints(poly, box, 1)) = Len(poly) THEN DSimplePolygon(BoxPoints(box))
    ELSE compress(DSimplePolygon(ClipLoop(poly, box, clip_dpoints(poly, box, 1), 1, -1, <<>>)))

\* clip with the bounds taken in the order given
clip_Unordered(poly, x_bounds, y_bounds) == ClipBox(poly, DBox(x_bounds, y_bounds))

\* clip(x_bounds, y_bounds) on the polygon poly, the bounds put in order
clip(poly, x_bounds, y_bounds) ==
    ClipBox(poly, DBox(Reordered(x_bounds), Reordered(y_bounds)))

\* rotate90(ex)
rotate90(v) == rotate(v, 1)

\* transform_and_rotate with ey = None read as ex turned clockwise
transform_and_rotate_Clockwise(poly, center, ex, ey) ==
    LET ex1 == IF ex = <<>> THEN IPt(1, 0) ELSE ex[1]
        ey1 == IF ey = <<>> THEN rotate(ex1, 3) ELSE ey[1]
    IN  DSimplePolygon([i \in 1..Len(poly) |->
            IPt(center.x + poly[i].x * ex1.x + poly[i].y * ey1.x,
                center.y + poly[i].x * ex1.y + poly[i].y * ey1.y)])

\* transform_and_rotate(center, ex, ey) on the polygon poly; <<>> is None
transform_and_rotate(poly, center, ex, ey) ==
    LET ex1 == IF ex = <<>> THEN IPt(1, 0) ELSE ex[1]
        ey1 == IF ey = <<>> THEN rotate90(ex1) ELSE ey[1]
    IN  DSimplePolygon([i \in 1..Len(poly) |->
            IPt(center.x + poly[i].x * ex1.x + poly[i].y * ey1.x,
                center.y + poly[i].x * ex1.y + poly[i].y * ey1.y)])

\* the contour turns the same way at every vertex
StrictlyConvex(s) ==
    \/ \A i \in 1..Len(s) : Turn(Around(s, i - 1), s[i], Around(s, i + 1)) < 0
    \/ \A i \in 1..Len(s) : Turn(Around(s, i - 1), s[i], Around(s, i + 1)) > 0

\* The caller lists the vertices of a convex polygon, in either direction
\* and from any vertex.
AddDPoint ==
    /\ pc = "input"
    /\ Len(waypoints) < MaxN - 1
    /\ \E x \in Coords, y \in Coords :
          /\ waypoints' = Append(waypoints, IPt(x, y))
          /\ \A i \in 1..Len(waypoints) : waypoints[i] # IPt(x, y)
          /\ Len(waypoints') >= 3 => StrictlyConvex(waypoints')
    /\ UNCHANGED <<points, radius, pc, exc, locals, history, width, taper, waveguide_path, cell, dpolygon>>

\* ZeroPDKDSimplePolygon(points)
NewPolygon ==
    /\ pc = "input"
    /\ Len(waypoints) >= 3
    /\ dpolygon' = DSimplePolygon(waypoints)
    /\ pc' = "polygon"
    /\ UNCHANGED <<points, radius, exc, locals, history, waypoints, width, taper, waveguide_path, cell>>

\* polygon.clip(x_bounds, y_bounds): the polygon is assigned to, and is
\* what the call returns
Clip ==
    /\ pc = "polygon"
    /\ \E x_bounds \in BoundPairs, y_bounds \in BoundPairs :
          /\ dpolygon' = clip(dpolygon, x_bounds, y_bounds)
          /\ call' = [fn |-> "clip", args |-> <<x_bounds, y_bounds>>]
    /\ pc' = "clipped"
    /\ UNCHANGED <<points, radius, exc, locals, last_step, snap, waypoints, width, taper, waveguide_path, cell>>

\* the same call made again on the polygon it returned
ClipAgain ==
    /\ pc = "clipped"
    /\ dpolygon' = clip(dpolygon, call.args[1], call.args[2])
    /\ pc' = "clipped_twice"
    /\ UNCHANGED <<points, radius, exc, locals, history, waypoints, width, taper, waveguide_path, cell>>

NextClip ==
    \/ AddDPoint
    \/ NewPolygon
    \/ Clip
    \/ ClipAgain

SpecClip == Init /\ [][NextClip]_vars

\* the points a caller gives as center
Centers == {IPt(0, 0), IPt(4, -8)}

\* the vectors a caller gives as ex or ey: <<>> is None, the others hold a
\* unit vector, one that is not, and one oblique to the axes
Bases == {<<>>, <<IPt(1, 0)>>, <<IPt(0, 1)>>, <<IPt(1, 1)>>, <<IPt(0, -2)>>}

\* polygon.transform_and_rotate(center, ex, ey) with ex and ey that span
\* the plane: the polygon is assigned to, and is what the call returns
TransformAndRotate ==
    /\ pc = "polygon"
    /\ \E center \in Centers, ex \in Bases, ey \in Bases :
          /\ Len(transform_and_rotate(dpolygon, center, ex, ey)) >= 3
          /\ dpolygon' = transform_and_rotate(dpolygon, center, ex, ey)
          /\ call' = [fn |-> "transform_and_rotate", args |-> <<center, ex, ey>>,
                      returned |-> "self"]
    /\ pc' = "transformed"
    /\ UNCHANGED <<points, radius, exc, locals, last_step, snap, waypoints, width, taper, waveguide_path, cell>>

NextTransform ==
    \/ AddDPoint
    \/ NewPolygon
    \/ TransformAndRotate

SpecTransform == Init /\ [][NextTransform]_vars

\* ------------------------------------------------------------ properties
Last(s) == s[Len(s)]

\* the clearance of a right-angle corner: radius - 0.001, in quarter units
Clear90 == NumQ(4 * (radius - Fudge))

\* the window of the iteration about to run raises the given signal
WindowRaises(sig) == pc = "loop" /\ Len(points_left) > 2 /\ Try3.kind = sig

\* C1: when compute_rounded_path returns, the first element of the path
\* starts at the first waypoint and the last element ends at the last
\* waypoint, whatever retries happened on the way.
C1_Endpoints ==
    pc = "returned" =>
        /\ Len(rounded_path) >= 1
        /\ rounded_path[1].P1 = points[1]
        /\ Last(rounded_path).P2 = points[Len(points)]

\* a path returned after a rewind recovery consumed the last four points
C1_Witness ==
    /\ pc = "returned"
    /\ last_step = "rewind_4"
    /\ Len(points) = MaxN
    /\ Len(rounded_path) >= 4

\* C2: the call terminates because every step of the loop either leaves the
\* loop or shortens points_left, which is finite: by one after a successful
\* solve_3, by two after a forward recovery, and by one net after a rewind
\* recovery (the restored list is one longer than the current one, solve_4
\* takes two off it).
C2_Decrease ==
    /\ pc = "loop" => (pc' \in {"returned", "raised"} \/ Len(points_left') < Len(points_left))
    /\ (pc = "loop" /\ pc' = "loop") =>
        /\ last_step' = "solve_3" => Len(points_left') = Len(points_left) - 1
        /\ last_step' = "forward_4" => Len(points_left') = Len(points_left) - 2
        /\ last_step' = "rewind_4" =>
              /\ Len(old_points_left) = Len(points_left) + 1
              /\ Len(points_left') = Len(old_points_left) - 2
              /\ Len(points_left') = Len(points_left) - 1

C2_Terminates == [][C2_Decrease]_vars

\* a rewind recovery has completed and the loop goes on
C2_Witness ==
    /\ pc = "loop"
    /\ last_step = "rewind_4"
    /\ Len(points_left) = Len(snap.points_left) - 2
    /\ Len(points_left) > 2

\* C3: a ClearanceRewind raised while can_rewind is false ends the call with
\* RuntimeError: solve_4 is not called and no forward retry is made, even
\* when the outgoing segment is long enough.  A ClearanceRewind on the first
\* window is always fatal.
C3_Fatal ==
    /\ (WindowRaises("ClearanceRewind") /\ ~can_rewind) =>
            /\ pc' = "raised"
            /\ exc' = "RuntimeError"
            /\ call'.fn # "solve_4"
            /\ UNCHANGED <<points_left, rounded_path>>
    /\ (WindowRaises("ClearanceRewind") /\ points_left = points /\ rounded_path = <<>>) =>
            /\ pc' = "raised"
            /\ exc' = "RuntimeError"

C3_RewindFatal == [][C3_Fatal]_vars

\* the first window raised ClearanceRewind although its outgoing segment has
\* room for the radius and a fourth point was there for a retry
C3_Witness ==
    /\ pc = "raised"
    /\ exc = "RuntimeError"
    /\ ~can_rewind
    /\ points_left = points
    /\ Len(points_left) >= 4
    /\ Try3.kind = "ClearanceRewind"
    /\ ~NumLess(Norm(PtSub(points_left[3], points_left[2])), Clear90)

\* C4: a ClearanceRewind raised while can_rewind is true restores the path
\* and points_left to their values before the preceding successful solve_3
\* (what that solve_3 appended is dropped, nothing earlier is lost), calls
\* solve_4 on the first four restored points, which are the previous window
\* followed by the next waypoint of the caller, and sets can_rewind false.
C4_Restore ==
    (WindowRaises("ClearanceRewind") /\ can_rewind) =>
        LET pl == snap.points_left
            rp == snap.rounded_path
            r4 == solve_4(pl[1], pl[2], pl[3], pl[4], 4 * radius)
        IN  /\ Len(pl) >= 4
            /\ call' = [fn |-> "solve_4", args |-> SubSeq(pl, 1, 4)]
            /\ SubSeq(pl, 1, 3) = call.args
            /\ \E i \in 1..Len(points) : pl[4] = points[i]
            /\ rounded_path = rp \o solve_3(pl[1], pl[2], pl[3], 4 * radius).sol
            /\ SubSeq(rounded_path', 1, Len(rp)) = rp
            /\ pc' = "loop" =>
                  /\ rounded_path' = rp \o r4.sol
                  /\ points_left' = r4.rest \o SubSeq(pl, 5, Len(pl))
                  /\ ~can_rewind'
            /\ pc' # "loop" => rounded_path' = rp /\ points_left' = pl

C4_RewindRestores == [][C4_Restore]_vars

\* a rewind recovery that dropped a Line and an Arc appended after earlier
\* elements, and replaced them by what solve_4 returned
C4_Witness ==
    /\ pc = "loop"
    /\ last_step = "rewind_4"
    /\ ~can_rewind
    /\ Len(old_rounded_path) >= 2
    /\ Len(rounded_path) > Len(old_rounded_path)

\* C5: at the top of an iteration can_rewind is true exactly when the step
\* completed last was a successful solve_3; it is false on entry and after
\* every solve_4, so that a ClearanceRewind raised right after a solve_4 is
\* fatal and two rewind recoveries never follow each other.
C5_Flag ==
    pc = "loop" =>
        /\ can_rewind <=> (last_step = "solve_3")
        /\ last_step = "none" => ~can_rewind
        /\ call.fn = "solve_4" => ~can_rewind

C5_AfterSolve4 ==
    /\ (WindowRaises("ClearanceRewind") /\ last_step \in {"rewind_4", "forward_4"}) =>
            pc' = "raised" /\ exc' = "RuntimeError"
    /\ (pc = "loop" /\ pc' = "loop" /\ last_step = "rewind_4") => last_step' # "rewind_4"

C5_CanRewind == [](C5_Flag) /\ [][C5_AfterSolve4]_vars

\* a ClearanceRewind raised right after a solve_4 recovery ended the call
C5_Witness ==
    /\ pc = "raised"
    /\ exc = "RuntimeError"
    /\ last_step \in {"rewind_4", "forward_4"}
    /\ call.fn = "solve_3"
    /\ Len(points_left) > 2
    /\ Try3.kind = "ClearanceRewind"

\* C6: ClearanceRewind and ClearanceForward never leave
\* compute_rounded_path: when the retry with solve_4 fails, the exception
\* the caller receives is RuntimeError.
C6_RetryFailsWithRuntimeError ==
    (pc = "raised" /\ call.fn = "solve_4") => exc = "RuntimeError"

\* C7: consecutive elements of the path meet (each ends where the next one
\* starts), and at the top of every iteration the last element ends at the
\* first of the points that remain; so it is also right after a rewind has
\* dropped elements.
C7_Continuity ==
    pc \in {"loop", "returned"} =>
        /\ \A i \in 1..(Len(rounded_path) - 1) : rounded_path[i].P2 = rounded_path[i + 1].P1
        /\ (pc = "loop" /\ rounded_path # <<>>) => Last(rounded_path).P2 = points_left[1]
        /\ (pc = "loop" /\ rounded_path = <<>>) => points_left[1] = points[1]

\* the top of an iteration right after a rewind that dropped elements, with
\* elements of earlier steps still in the path
C7_Witness ==
    /\ pc = "loop"
    /\ last_step = "rewind_4"
    /\ Len(snap.rounded_path) >= 2
    /\ Len(rounded_path) > Len(snap.rounded_path)
    /\ Last(rounded_path).P2 = points_left[1]

\* C8: the loop is left with exactly two points remaining, never fewer; the
\* last element appended is the Line between these two, and the closing
\* assertion does not fail.  Two waypoints give the single Line from the
\* first to the second.
C8_TwoLeft ==
    /\ pc = "loop" => Len(points_left) >= 2
    /\ ~(pc = "raised" /\ exc = "TypeError")
    /\ (pc = "raised" /\ exc = "AssertionError") => call.fn # "solve_2"

C8_Close ==
    /\ (pc = "loop" /\ Len(points_left) <= 2) =>
            /\ pc' = "returned"
            /\ rounded_path' = Append(rounded_path, Line(points_left[1], points_left[2]))
            /\ points_left' = <<>>
    /\ (pc = "start" /\ Len(points) = 2) =>
            /\ pc' = "returned"
            /\ rounded_path' = <<Line(points[1], points[2])>>

C8_Exit == [](C8_TwoLeft) /\ [][C8_Close]_vars

\* a path of several elements closed by the Line between the two points
\* that remained
C8_Witness ==
    /\ pc = "returned"
    /\ call.fn = "solve_2"
    /\ Len(rounded_path) >= 3
    /\ Last(rounded_path) = Line(call.args[1], call.args[2])
    /\ points_left = <<>>

\* C9: for a window A, B, C that is not a straight pass, solve_3 raises
\* ClearanceRewind whenever |B - A| is below the clearance, whatever |C - B|
\* is; it raises ClearanceForward only when |B - A| suffices and |C - B| is
\* below the clearance; otherwise it returns exactly a Line and an Arc, and
\* the remaining points are the end of the arc and C.  At a full reversal
\* the clearance is infinite and ClearanceRewind is raised for every radius.
C9_Window(A, B, C) ==
    LET r3 == solve_3(A, B, C, 4 * radius)
        len1 == Norm(PtSub(B, A))
        len2 == Norm(PtSub(C, B))
        In == UnitOf(PtSub(B, A))
        Out == UnitOf(PtSub(C, B))
    IN  /\ Out = <<-In[1], -In[2]>> => r3.kind = "ClearanceRewind"
        /\ (Out # In /\ Out # <<-In[1], -In[2]>>) =>
              /\ NumLess(len1, Clear90) => r3.kind = "ClearanceRewind"
              /\ r3.kind = "ClearanceForward" <=>
                    (~NumLess(len1, Clear90) /\ NumLess(len2, Clear90))
              /\ (~NumLess(len1, Clear90) /\ ~NumLess(len2, Clear90)) =>
                    /\ r3.kind = "ok"
                    /\ Len(r3.sol) = 2
                    /\ r3.sol[1].type = "Line"
                    /\ r3.sol[2].type = "Arc"
                    /\ r3.rest = <<r3.sol[2].P2, C>>
                    /\ r3.sol[2].P2 = PtMove(B, Out, Clear90)

C9_Order ==
    (pc \in {"loop", "raised"} /\ Len(points_left) > 2) =>
        C9_Window(points_left[1], points_left[2], points_left[3])

\* solve_3 raised ClearanceRewind on a window whose two segments are both
\* below the clearance
C9_Witness ==
    /\ pc = "raised"
    /\ exc = "RuntimeError"
    /\ call.fn = "solve_3"
    /\ Len(points_left) > 2
    /\ Try3.kind = "ClearanceRewind"
    /\ NumLess(Norm(PtSub(points_left[2], points_left[1])), Clear90)
    /\ NumLess(Norm(PtSub(points_left[3], points_left[2])), Clear90)

\* C10: when B lies on the segment from A to C, solve_3 returns no element
\* (no Arc) and the remaining points A, C, and raises no signal, whatever
\* the radius and the lengths of the two segments are.
C10_Collinear ==
    (pc \in {"loop", "raised"} /\ Len(points_left) > 2) =>
        LET A == points_left[1]
            B == points_left[2]
            C == points_left[3]
        IN  (UnitOf(PtSub(B, A)) = UnitOf(PtSub(C, B)) /\ UnitOf(PtSub(B, A)) # <<0, 0>>) =>
                solve_3(A, B, C, 4 * radius) = Ok(<<>>, <<A, C>>)

\* solve_3 passed straight through a point both of whose segments are
\* shorter than the clearance of the radius
C10_Witness ==
    /\ pc = "loop"
    /\ last_step = "solve_3"
    /\ call.fn = "solve_3"
    /\ UnitOf(PtSub(call.args[2], call.args[1])) = UnitOf(PtSub(call.args[3], call.args[2]))
    /\ NumLess(Norm(PtSub(call.args[2], call.args[1])), Clear90)
    /\ NumLess(Norm(PtSub(call.args[3], call.args[2])), Clear90)
    /\ rounded_path = snap.rounded_path
    /\ SubSeq(points_left, 1, 2) = <<call.args[1], call.args[3]>>

\* C11: a segment next to a right-angle corner that is exactly as long as
\* the radius (the clearance radius / tan(|angle| / 2) of that corner) is
\* enough room for solve_3: no ClearanceRewind when it is the incoming
\* segment, no ClearanceForward when it is the outgoing one, and a corner
\* with both segments of that length or more is rounded.  A corner whose
\* two segments are exactly one radius long never ends the call with an
\* error.
C11_Window(A, B, C) ==
    LET r3 == solve_3(A, B, C, 4 * radius)
        len1 == Norm(PtSub(B, A))
        len2 == Norm(PtSub(C, B))
        In == UnitOf(PtSub(B, A))
        Out == UnitOf(PtSub(C, B))
    IN  (Out # In /\ Out # <<-In[1], -In[2]>>) =>
            /\ len1 = Num(radius) => r3.kind # "ClearanceRewind"
            /\ (len2 = Num(radius) /\ ~NumLess(len1, Num(radius))) => r3.kind = "ok"
            /\ (len1 = Num(radius) /\ ~NumLess(len2, Num(radius))) => r3.kind = "ok"

C11_Boundary ==
    /\ (pc \in {"loop", "raised"} /\ Len(points_left) > 2) =>
            C11_Window(points_left[1], points_left[2], points_left[3])
    /\ (/\ pc \in {"loop", "returned", "raised"}
        /\ Len(points) = 3
        /\ cross_prod(UnitOf(PtSub(points[2], points[1])), UnitOf(PtSub(points[3], points[2]))) # 0
        /\ Norm(PtSub(points[2], points[1])) = Num(radius)
        /\ Norm(PtSub(points[3], points[2])) = Num(radius)) => pc # "raised"

\* the corner whose two segments are one radius long, compiled into a Line,
\* an Arc and the closing Line
C11_Witness ==
    /\ pc = "returned"
    /\ Len(points) = 3
    /\ Norm(PtSub(points[2], points[1])) = Num(radius)
    /\ Norm(PtSub(points[3], points[2])) = Num(radius)
    /\ UnitOf(PtSub(points[2], points[1])) # UnitOf(PtSub(points[3], points[2]))
    /\ Len(rounded_path) = 3
    /\ rounded_path[2].type = "Arc"

\* on the paths assembled from Steps every window of the loop is solved by
\* solve_3
SegmentsHaveRoom ==
    (pc = "loop" /\ Len(points_left) > 2) => Try3Units.kind = "ok"

\* the types of the elements of a path, in order
Types(path) == [i \in 1..Len(path) |-> path[i].type]

\* the first path of the rounding test, in units
ZExample == <<IPt(0, 0), IPt(10000, 0), IPt(10000, 10000), IPt(30000, 0)>>

\* C12: the waypoints (0,0), (10,0), (10,10), (30,0) with radius 3 compile
\* into a Line, a counter-clockwise Arc and a clockwise Arc (a Z-turn).
C12_ZTurn ==
    (pc = "returned" /\ points = ZExample /\ radius = 3000) =>
        /\ Types(rounded_path) = <<"Line", "Arc", "Arc">>
        /\ rounded_path[2].ccw
        /\ ~rounded_path[3].ccw

\* |P - Q| differs from the radius by less than 0.001
AtRadius(P, Q) ==
    /\ NumSign(NumSub(Dist16(P, Q), NumQ((4 * radius - 4 * Fudge) * (4 * radius - 4 * Fudge)))) > 0
    /\ NumSign(NumSub(Dist16(P, Q), NumQ((4 * radius + 4 * Fudge) * (4 * radius + 4 * Fudge)))) < 0

\* C13: in a returned path the centre of every Arc is one radius away from
\* the start and from the end of the arc (stated with the tolerance 0.001,
\* which the claim's 1e-6 implies).
C13_ArcRadius ==
    pc = "returned" =>
        \A i \in 1..Len(rounded_path) :
            rounded_path[i].type = "Arc" =>
                /\ AtRadius(rounded_path[i].C, rounded_path[i].P1)
                /\ AtRadius(rounded_path[i].C, rounded_path[i].P2)

\* 16 times the product of two numbers over the same surd, as p + q*sqrt(n)
NumMul16(a, b) ==
    LET x == NumNorm(a)
        y == NumNorm(b)
        n == IF x[2] # 0 THEN x[3] ELSE y[3]
    IN  NumNorm(<<x[1] * y[1] + x[2] * y[2] * n, x[1] * y[2] + x[2] * y[1], n>>)

\* the radius vector v turned by a quarter turn in the sense of the arc
Rot(v, ccw) ==
    IF ccw THEN [x |-> NumNeg(v.y), y |-> v.x] ELSE [x |-> v.y, y |-> NumNeg(v.x)]

\* a vector along the direction of travel where the element begins
TangentIn(e) ==
    IF e.type = "Line" THEN PtSub(e.P2, e.P1) ELSE Rot(PtSub(e.P1, e.C), e.ccw)

\* a vector along the direction of travel where the element ends
TangentOut(e) ==
    IF e.type = "Line" THEN PtSub(e.P2, e.P1) ELSE Rot(PtSub(e.P2, e.C), e.ccw)

\* the sign of the scalar product of two vectors
DotSign(s, t) == NumSign(NumAdd(NumMul16(s.x, t.x), NumMul16(s.y, t.y)))

\* C14: at every junction of a returned path the direction in which the
\* first element ends is the direction in which the second begins (stated
\* with the tolerance of a quarter turn, which the claim's 1e-6 rad implies:
\* the two directions never point away from each other).
C14_Tangents ==
    pc = "returned" =>
        \A i \in 1..(Len(rounded_path) - 1) :
            DotSign(TangentOut(rounded_path[i]), TangentIn(rounded_path[i + 1])) >= 0

\* C15: solve_4 returns what solve_Z returns exactly when the turn angles
\* a1 (from AB to -BC) and a2 (from CD to -BC) have the same sign
\* (a1 * a2 > 0), and what solve_U returns in every other case, a zero angle
\* included; a solve_Z that returns gives a Line and two Arcs of opposite
\* sense; whichever solver returns leaves two points, the second being D.
\* When the call has returned, the path and the remaining points of the
\* compiler are made of this result.
C15_Window(A, B, C, D) ==
    LET a1 == angle_between(PtSub(B, C), PtSub(B, A))
        a2 == angle_between(PtSub(B, C), PtSub(D, C))
        r4 == solve_4(A, B, C, D, 4 * radius)
    IN  /\ a1 * a2 > 0 => r4 = solve_Z(A, B, C, D, 4 * radius)
        /\ a1 * a2 <= 0 => r4 = solve_U(A, B, C, D, 4 * radius)
        /\ (a1 * a2 > 0 /\ r4.kind = "ok") =>
              /\ Types(r4.sol) = <<"Line", "Arc", "Arc">>
              /\ r4.sol[2].ccw # r4.sol[3].ccw
        /\ r4.kind = "ok" =>
              /\ Len(r4.rest) = 2
              /\ r4.rest[2] = D
        /\ (r4.kind = "ok" /\ pc = "loop") =>
              /\ rounded_path = old_rounded_path \o r4.sol
              /\ SubSeq(points_left, 1, 2) = r4.rest
        /\ r4.kind # "ok" => (pc = "raised" /\ exc = r4.kind)

C15_Dispatch ==
    (pc \in {"loop", "raised"} /\ call.fn = "solve_4") =>
        C15_Window(call.args[1], call.args[2], call.args[3], call.args[4])

\* solve_4 has just returned a Z-turn: a Line and two Arcs of opposite sense
C15_Witness ==
    /\ pc = "loop"
    /\ call.fn = "solve_4"
    /\ Len(rounded_path) = Len(old_rounded_path) + 3
    /\ Last(rounded_path).type = "Arc"
    /\ rounded_path[Len(rounded_path) - 1].type = "Arc"
    /\ Last(rounded_path).ccw # rounded_path[Len(rounded_path) - 1].ccw
    /\ Len(points_left) >= 2
    /\ points_left[2] = call.args[4]

\* the compiler was entered and an exception left it
CompileRaised == exc # "none" /\ 2 * radius > width

\* the polyline through pts, 0.1 wide at each of them
Straight(pts) == Polygon(pts, [i \in 1..Len(pts) |-> 100])

\* C16: when compute_rounded_path raises, layout_waveguide_from_points does
\* not let the exception out: nothing is in the cell while the compiler
\* runs, and the call ends by returning with exactly one shape in the cell,
\* the straight polyline through the waypoints without their repetitions,
\* 0.1 wide whatever width was asked for, and no rounded or tapered shape.
C16_Fallback ==
    /\ pc \in {"start", "loop", "raised", "returned"} => cell = <<>>
    /\ CompileRaised /\ pc \in {"layout_returned", "layout_raised"} =>
          /\ pc = "layout_returned"
          /\ cell = <<Straight(unique_points(waypoints))>>
          /\ \A i \in 1..Len(cell[1].widths) : cell[1].widths[i] # width

\* the compiler raised on a list that had repeated points, and the call
\* has returned
C16_Witness ==
    /\ pc = "layout_returned"
    /\ CompileRaised
    /\ Len(cell) = 1
    /\ Len(cell[1].points) < Len(waypoints)
    /\ Len(cell[1].points) > 2

\* a step of compute_rounded_path on a list of fewer than two waypoints:
\* the call ends at once with the error of the sanity check, and no step
\* returns
C17_Step ==
    Len(points) < 2 =>
        /\ pc' # "returned"
        /\ pc = "start" => pc' = "raised" /\ exc' = "AssertionError" /\ rounded_path' = <<>>

\* C17: compute_rounded_path called with no waypoint or with one reports an
\* error to its caller (the AssertionError of "assert N >= 3") and never
\* returns a path.
C17_Degenerate == [][C17_Step]_vars

\* the call on a single waypoint has raised
C17_Witness ==
    /\ pc = "raised"
    /\ exc = "AssertionError"
    /\ Len(points) = 1
    /\ rounded_path = <<>>

\* s is t with some of its entries left out
RECURSIVE IsSubsequence(_, _)
IsSubsequence(s, t) ==
    IF s = <<>> THEN TRUE
    ELSE IF t = <<>> THEN FALSE
    ELSE IF Head(s) = Head(t) THEN IsSubsequence(Tail(s), Tail(t))
    ELSE IsSubsequence(s, Tail(t))

\* C18: the list layout_waveguide_from_points hands to compute_rounded_path
\* is a subsequence of the waypoints it was given that starts with the
\* first of them; every two consecutive points of it are more than 1e-4
\* apart; a point was left out only within 1e-4 of a point that was kept;
\* and unique_points applied to it gives the same list.
C18_Unique ==
    pc = "start" =>
        /\ IsSubsequence(points, waypoints)
        /\ points[1] = waypoints[1]
        /\ \A i \in 1..(Len(points) - 1) : Apart(points[i + 1], points[i])
        /\ \A j \in 1..Len(waypoints) : \E i \in 1..Len(points) : ~Apart(waypoints[j], points[i])
        /\ unique_points(points) = points
        /\ points = unique_points(waypoints)

\* the compiler is handed a list from which a point within the tolerance
\* of the first was left out, and in which a point within the tolerance of
\* the point before it was kept, being far enough from the first
C18_Witness ==
    /\ pc = "start"
    /\ Len(waypoints) = 4
    /\ Len(points) = 2
    /\ waypoints[2] # waypoints[1]
    /\ points[2] = waypoints[3]
    /\ ~Apart(waypoints[3], waypoints[2])

\* C19: a width list whose length is neither the number of points nor two
\* makes layout_waveguide end in an error, and no polygon is laid out.
C19_InvalidWidth ==
    /\ pc \in {"layout_returned", "layout_raised"}
    /\ Len(waypoints) >= 2
    /\ width.list
    /\ Len(width.w) \notin {Len(waypoints), 2}
    => pc = "layout_raised" /\ cell = <<>>

\* a _Path of constant width w that runs from P1 to P2
ConstantRun(e, w, P1, P2) ==
    /\ e.type = "Path"
    /\ ~e.widths.list
    /\ e.widths.w = w
    /\ e.points[1] = P1
    /\ e.points[Len(e.points)] = P2

\* a _Taper from P1 to P2, tl long, along d, that goes from width w1 to w2
TaperRun(e, P1, P2, d, tl, w1, w2) ==
    /\ e.type = "Taper"
    /\ e.P1 = P1
    /\ e.P2 = P2
    /\ e.points = <<P1, P2>>
    /\ UnitOf(PtSub(P2, P1)) = d
    /\ Norm(PtSub(P2, P1)) = Num(tl)
    /\ e.widths = WidthList(<<w1, w2>>)

\* the elements wp are the image of path, element by element and in order:
\* an Arc is one run of constant width w through the points of the arc; a
\* Line is either one run of constant width w between its ends, or a taper
\* from w to tw over the first tl, a run of constant width tw, and a taper
\* from tw to w over the last tl, each starting where the one before ends
RECURSIVE Tapered(_, _, _, _, _)
Tapered(path, wp, w, tw, tl) ==
    IF path = <<>> THEN wp = <<>>
    ELSE IF wp = <<>> THEN FALSE
    ELSE LET e == Head(path) IN
         IF e.type = "Arc"
         THEN /\ ConstantRun(wp[1], w, e.P1, e.P2)
              /\ wp[1].points = get_points(e)
              /\ Tapered(Tail(path), Tail(wp), w, tw, tl)
         ELSE \/ /\ ConstantRun(wp[1], w, e.P1, e.P2)
                 /\ Len(wp[1].points) = 2
                 /\ Tapered(Tail(path), Tail(wp), w, tw, tl)
              \/ /\ Len(wp) >= 3
                 /\ TaperRun(wp[1], e.P1, wp[1].P2, UnitOf(PtSub(e.P2, e.P1)), tl, w, tw)
                 /\ ConstantRun(wp[2], tw, wp[1].P2, wp[3].P1)
                 /\ Len(wp[2].points) = 2
                 /\ TaperRun(wp[3], wp[3].P1, e.P2, UnitOf(PtSub(e.P2, e.P1)), tl, tw, w)
                 /\ Tapered(Tail(path), SubSeq(wp, 4, Len(wp)), w, tw, tl)

\* C20: compute_tapered_path keeps the order and the geometry of the
\* elements and tapers Lines only: every Arc gives exactly one element of
\* constant width waveguide_width, every Line either one element of
\* constant width from P1 to P2 or three contiguous ones, a taper from
\* waveguide_width to taper_width over taper_length from P1, a run of
\* constant taper_width, and a taper back over the last taper_length to P2.
C20_Tapered ==
    pc = "tapered" => Tapered(rounded_path, waveguide_path, width, taper[1], taper[2])

\* a path with an Arc, a Line that was tapered and a Line that was not
C20_Witness ==
    /\ pc = "tapered"
    /\ Len(rounded_path) >= 3
    /\ Len(waveguide_path) = Len(rounded_path) + 2
    /\ \E i \in 1..Len(waveguide_path) : waveguide_path[i].type = "Taper"
    /\ \E i \in 1..Len(waveguide_path) :
          waveguide_path[i].type = "Path" /\ Len(waveguide_path[i].points) > 2

\* the Lines of the path that are longer than m units
LongLines(path, m) ==
    {i \in 1..Len(path) :
        /\ path[i].type = "Line"
        /\ NumSign(NumSub(Norm(PtSub(path[i].P2, path[i].P1)), Num(m))) > 0}

\* the tapers among the elements wp
TapersOf(wp) == {i \in 1..Len(wp) : wp[i].type = "Taper"}

\* C21: a Line is split into tapers exactly when it is longer than
\* 30 + 2 * taper_length, so a tapered path has two tapers for every Line
\* longer than that and none for any other Line, one of exactly that
\* length included.
C21_Threshold ==
    pc = "tapered" =>
        Cardinality(TapersOf(waveguide_path))
            = 2 * Cardinality(LongLines(rounded_path, MinStraight + 2 * taper[2]))

\* a call of layout_waveguide with a width list of two on three or more
\* points, the first and the last of them different, has returned
TwoWidthsLaidOut ==
    /\ pc = "layout_returned"
    /\ width.list
    /\ Len(width.w) = 2
    /\ Len(waypoints) >= 3
    /\ waypoints[1] # waypoints[Len(waypoints)]
    /\ Len(cell) = 1

\* the length of the polyline pts from its first point to its i-th, in
\* quarter units
RECURSIVE LengthTo(_, _)
LengthTo(pts, i) ==
    IF i <= 1 THEN 0
    ELSE LengthTo(pts, i - 1) + NumAbs(NumAdd(NumSub(pts[i].x, pts[i - 1].x),
                                              NumSub(pts[i].y, pts[i - 1].y)))[1]

\* the fraction f is w0 + (w1 - w0) * d / L
IsInterpolation(f, w0, w1, d, L) ==
    /\ f.den # 0
    /\ L # 0
    /\ f.num * L = (w0 * L + (w1 - w0) * d) * f.den

\* the fraction f lies between a and b, whichever is larger
Between(f, a, b) ==
    \/ f.den > 0 /\ a * f.den <= f.num /\ f.num <= b * f.den
    \/ f.den > 0 /\ b * f.den <= f.num /\ f.num <= a * f.den

\* a <= b for fractions with positive denominators
FracLeq(a, b) == a.den > 0 /\ b.den > 0 /\ a.num * b.den <= b.num * a.den

\* the widths ws as fractions: the first is the number w0 itself
AsFraction(ws, i) == IF i = 1 THEN [num |-> ws[1], den |-> 1] ELSE ws[i]

\* C22: with a width list [w0, w1] on three or more points whose first and
\* last differ, the width at point i is w0 + (w1 - w0) * (length of the
\* polyline up to point i) / (length of the whole polyline): w0 at the
\* first point, w1 at the last, and from point to point the widths move
\* from w0 towards w1 without turning back.
C22_Interpolated ==
    TwoWidthsLaidOut =>
        LET ws == cell[1].widths
            n == Len(waypoints)
            w0 == width.w[1]
            w1 == width.w[2]
            L == LengthTo(waypoints, n)
        IN  /\ Len(ws) = n
            /\ cell[1].points = waypoints
            /\ ws[1] = w0
            /\ ws[n].num = w1 * ws[n].den
            /\ \A i \in 2..n : IsInterpolation(ws[i], w0, w1, LengthTo(waypoints, i), L)
            /\ \A i \in 2..n : Between(ws[i], w0, w1)
            /\ \A i \in 2..n :
                  IF w0 <= w1 THEN FracLeq(AsFraction(ws, i - 1), ws[i])
                  ELSE FracLeq(ws[i], AsFraction(ws, i - 1))

\* two different widths on three points with segments of different
\* lengths: the middle width is strictly between the two
C22_Witness ==
    /\ TwoWidthsLaidOut
    /\ Len(waypoints) = 3
    /\ width.w[1] # width.w[2]
    /\ LengthTo(waypoints, 2) # 0
    /\ 2 * LengthTo(waypoints, 2) # LengthTo(waypoints, 3)
    /\ LengthTo(waypoints, 2) # LengthTo(waypoints, 3)

\* the direction d turned a quarter turn counter-clockwise
LeftOf(d) == <<-d[2], d[1]>>

IsSuffix(s, t) ==
    /\ Len(s) <= Len(t)
    /\ s = SubSeq(t, Len(t) - Len(s) + 1, Len(t))

\* points_left[1:] of the list the loop works on is an end of the caller's list
C27_Suffix ==
    (pc = "loop" \/ (pc = "raised" /\ Len(points) >= 3)) =>
        /\ Len(points_left) >= 2
        /\ IsSuffix(Tail(points_left), points)
        /\ Last(points_left) = Last(points)
        /\ Len(old_points_left) >= 2
        /\ IsSuffix(Tail(old_points_left), points)

\* the call leaves its argument alone
C27_Frame == pc # "input" => points' = points

\* C27: throughout compute_rounded_path the list of remaining points without
\* its first entry is an end of the caller's waypoint list: only the first
\* remaining point can be a tangent point made by a solver, the last
\* remaining point is the last waypoint, and the caller's list is never
\* modified.
C27_Remaining == [](C27_Suffix) /\ [][C27_Frame]_vars

\* the loop goes on from a tangent point that is no waypoint of the caller,
\* after a recovery with solve_4, with two more corners to round
C27_Witness ==
    /\ pc = "loop"
    /\ last_step \in {"rewind_4", "forward_4"}
    /\ Len(points_left) >= 3
    /\ \A i \in 1..Len(points) : points[i] # points_left[1]
    /\ points_left[2] = points[Len(points) - Len(points_left) + 2]

\* what the handler of ClearanceForward does with the window at hand
C28_Handler ==
    WindowRaises("ClearanceForward") =>
        IF Len(points_left) >= 4
        THEN LET r4 == solve_4(points_left[1], points_left[2], points_left[3],
                               points_left[4], 4 * radius)
             IN  /\ call' = [fn |-> "solve_4", args |-> SubSeq(points_left, 1, 4)]
                 /\ SubSeq(rounded_path', 1, Len(rounded_path)) = rounded_path
                 /\ pc' = "loop" =>
                       /\ r4.kind = "ok"
                       /\ rounded_path' = rounded_path \o r4.sol
                       /\ points_left' = r4.rest \o SubSeq(points_left, 5, Len(points_left))
                       /\ ~can_rewind'
                 /\ pc' # "loop" => rounded_path' = rounded_path
        ELSE /\ pc' = "raised"
             /\ exc' = "RuntimeError"
             /\ call'.fn # "solve_4"
             /\ UNCHANGED <<rounded_path, points_left>>

\* C28: on a ClearanceForward the compiler discards nothing it has emitted:
\* with four or more points remaining the accumulated path is kept and
\* solve_4 is applied to the first four remaining points; with three points
\* remaining the call ends with RuntimeError, also when can_rewind is true
\* and the saved list has a fourth point.
C28_Forward == [][C28_Handler]_vars

\* the last corner raised ClearanceForward right after a successful solve_3:
\* the call ended although the saved list had four points
C28_Witness ==
    /\ pc = "raised"
    /\ exc = "RuntimeError"
    /\ can_rewind
    /\ Len(points_left) = 3
    /\ Try3.kind = "ClearanceForward"
    /\ Len(old_points_left) >= 4
    /\ Len(rounded_path) >= 2

\* the step completed last was a solve_3 that passed straight through the
\* middle point of its window and emitted nothing
AfterStraightPass ==
    /\ last_step = "solve_3"
    /\ Len(snap.points_left) >= 3
    /\ solve_3(snap.points_left[1], snap.points_left[2], snap.points_left[3],
               4 * radius).sol = <<>>
    /\ rounded_path = snap.rounded_path

\* C29: a straight pass counts as a step that can be rewound: after solve_3
\* returned no elements for collinear A, B, C, can_rewind is true, a
\* ClearanceRewind on the next window restores the list that still holds B and
\* calls solve_4 on a window whose first three points are collinear, and this
\* ClearanceRewind does not end the call.
C29_Step ==
    (WindowRaises("ClearanceRewind") /\ AfterStraightPass) =>
        /\ can_rewind
        /\ old_points_left = snap.points_left
        /\ call' = [fn |-> "solve_4", args |-> SubSeq(old_points_left, 1, 4)]
        /\ pc' # "raised"

C29_StraightPass == [][C29_Step]_vars

\* what the code does in the case of C29: the flag is set, the saved list
\* with B is restored and solve_4 is called on it
C29_Restores ==
    (WindowRaises("ClearanceRewind") /\ AfterStraightPass) =>
        /\ can_rewind
        /\ old_points_left = snap.points_left
        /\ call' = [fn |-> "solve_4", args |-> SubSeq(old_points_left, 1, 4)]
        /\ exc' # "RuntimeError"

C29_Called == [][C29_Restores]_vars

\* C30: when fewer than two points remain after the repeated points are
\* removed (no point, one point, or every point within 1e-4 of the first),
\* layout_waveguide_from_points puts no shape into the cell, raises nothing
\* and returns the cell as it was; the assertion radius > width / 2 comes
\* first, so that with a radius too small the call ends with AssertionError
\* whatever the points are, and nothing is drawn in its place.
C30_NothingToDo ==
    pc # "input" =>
        /\ (Len(unique_points(waypoints)) < 2 /\ 2 * radius > width) =>
              /\ pc = "layout_returned"
              /\ exc = "none"
              /\ cell = <<>>
              /\ rounded_path = <<>>
              /\ points = unique_points(waypoints)
        /\ 2 * radius <= width =>
              /\ pc = "layout_raised"
              /\ exc = "AssertionError"
              /\ cell = <<>>

\* the call returned on a list of several points, not all the same, that
\* are all within the tolerance of the first
C30_Witness ==
    /\ pc = "layout_returned"
    /\ Len(waypoints) >= 3
    /\ waypoints[2] # waypoints[1]
    /\ waypoints[3] # waypoints[2]
    /\ waypoints[3] # waypoints[1]
    /\ points = <<waypoints[1]>>
    /\ cell = <<>>
    /\ exc = "none"

\* the polygon the caller made, before any call on it
Original == DSimplePolygon(waypoints)

\* the corners of the clip box of the call made last
CallBox == DBox(Reordered(call.args[1]), Reordered(call.args[2]))

\* p is within the clockwise contour and on none of its edges
StrictlyInside(poly, p) ==
    /\ Len(poly) >= 3
    /\ \A i \in 1..Len(poly) : Turn(poly[i], Around(poly, i + 1), p) < 0

\* C25: for a convex polygon and a box given by x_bounds and y_bounds the
\* vertices of what clip leaves are those of the intersection of the polygon
\* with the box; in particular every corner of the box that lies inside the
\* polygon is a vertex of the result.
C25_Corners ==
    pc = "clipped" =>
        \A i \in 1..4 :
            StrictlyInside(Original, BoxPoints(CallBox)[i]) =>
                \E j \in 1..Len(dpolygon) : dpolygon[j] = BoxPoints(CallBox)[i]

\* the vertices of a polygon
Vertices(poly) == {poly[i] : i \in 1..Len(poly)}

\* what a call of clip does to a polygon that lies in the closed box, and
\* what the same call does to the polygon it returned
C24_Step ==
    /\ (pc = "polygon" /\ pc' = "clipped"
          /\ \A i \in 1..Len(dpolygon) :
                check_within_bounds(dpolygon[i],
                                    DBox(Reordered(call'.args[1]), Reordered(call'.args[2])))) =>
            /\ dpolygon' = dpolygon
            /\ Vertices(dpolygon') = Vertices(waypoints)
    /\ (pc = "clipped" /\ pc' = "clipped_twice") =>
            /\ call' = call
            /\ dpolygon' = dpolygon

\* C24: clipping a polygon that lies entirely within the closed clip box
\* leaves it as it is, with the same vertices, whichever sides of the box
\* are infinite; so clipping the result of clip again with the same bounds
\* changes nothing.
C24_Inside == [][C24_Step]_vars

\* a polygon that touches the finite side of a box from within was clipped,
\* the other side of the box being infinite, and is what it was
C24_Witness ==
    /\ pc = "clipped"
    /\ call.args[1] = <<0, Inf>>
    /\ call.args[2] = <<10, -2>>
    /\ Len(dpolygon) = 4
    /\ \E i \in 1..4 : dpolygon[i].x = 0
    /\ dpolygon = Original
    /\ dpolygon # waypoints

\* center + x * ex + y * ey
Image(v, center, ex, ey) ==
    IPt(center.x + v.x * ex.x + v.y * ey.x, center.y + v.x * ex.y + v.y * ey.y)

\* what a call of transform_and_rotate does, with ex and ey as the call
\* takes them when they are not given
C26_Step ==
    (pc = "polygon" /\ pc' = "transformed") =>
        LET center == call'.args[1]
            ex == IF call'.args[2] = <<>> THEN IPt(1, 0) ELSE call'.args[2][1]
            ey == IF call'.args[3] = <<>> THEN IPt(-ex.y, ex.x) ELSE call'.args[3][1]
        IN  /\ Vertices(dpolygon') = {Image(dpolygon[i], center, ex, ey) : i \in 1..Len(dpolygon)}
            /\ Len(dpolygon') = Len(dpolygon)
            /\ call'.returned = "self"
            /\ waypoints' = waypoints

\* C26: transform_and_rotate(center, ex, ey) takes every vertex (x, y) of the
\* polygon to center + x * ex + y * ey, where ex is (1, 0) when not given and
\* ey is ex turned a quarter turn counter-clockwise when not given; ex and ey
\* need be neither unit vectors nor perpendicular; the polygon itself is
\* changed and is what the call returns.
C26_Transform == [][C26_Step]_vars

\* a polygon moved and turned by an ex that is not a unit vector, ey left
\* to the call
C26_Witness ==
    /\ pc = "transformed"
    /\ call.args = <<IPt(4, -8), <<IPt(0, -2)>>, <<>>>>
    /\ Len(dpolygon) = 4
    /\ Vertices(dpolygon) # Vertices(waypoints)
    /\ \E i \in 1..4 : dpolygon[i] = IPt(4 + 2 * 8, -8 - 2 * 8)

====
